---------------------------- MODULE Spec2Model ----------------------------
(***************************************************************************)
(* Dual-tier memory engine: short-term store (per session, TTL), long-term *)
(* store (vector search with deduplication), recall, promotion, lifecycle  *)
(* (archive / consolidate / summarize).                                    *)
(*                                                                         *)
(* Texts are sequences of one-character strings, so that lower(), split(), *)
(* the substring test, join and the f-strings of the code are computed as  *)
(* the code computes them.  Scores and thresholds are in hundredths        *)
(* (0.3 is 30), similarities are compared by cross-multiplication.         *)
(***************************************************************************)
EXTENDS Integers, Sequences, FiniteSets, TLC

(***************************************************************************)
(* Bounds of the model.                                                    *)
(***************************************************************************)
MaxDedupLtm == 2     \* long-term entries in the deduplication specification
MaxRecallLtm == 2    \* long-term entries in the recall specification
MaxRecallTime == 2   \* clock ticks in the recall specification
MaxPromoteLtm == 2   \* long-term entries in the promotion specification
MaxPromoteTime == 2  \* clock ticks in the promotion specification
MaxConsolidateSources == 4  \* entries inserted in the consolidation specification
MaxSummarizeLtm == 3        \* long-term entries at the start of an operation, summary specification
MaxSummarizeTime == 3       \* clock ticks in the summary specification
MaxImportanceLtm == 2             \* long-term entries in the importance runs
MaxImportanceTime == 1            \* clock ticks in the importance runs
MaxScoreLtm == 1                  \* long-term entries in the scorer runs
MaxScoreCalls == 4                \* recorded calls of the scorer
MaxSearchLtm == 2                 \* long-term entries in the search runs
MaxSearchTime == 1                \* clock ticks in the search runs
MaxMergeLen == 3                  \* length of a result list given to the hybrid merge
MaxScopeLtm == 2                  \* long-term entries in the owner-scope runs
MaxStmTime == 2                   \* clock ticks in the short-term store runs
MaxRedisTime == 2                 \* clock ticks in the Redis backend runs
MaxSweepTime == 2                 \* clock ticks in the cleanup thread runs
MaxFailLtm == 2                   \* long-term entries in the adapter failure runs
MaxRaceLtm == 2                   \* long-term entries in the concurrent promotion runs
MaxCleanupTime == 3                \* clock ticks in the manual sweep runs
MaxConversationTime == 1           \* clock ticks in the conversation runs
MaxConversationLtm == 1            \* long-term entries in the conversation runs
MaxTurnSeconds == 2                \* seconds told apart within one clock tick
MaxInsertLtm == 3                  \* long-term entries at the start of an insertion
MaxInsertTime == 2                 \* clock ticks in the insertion-path runs
MaxFormulaCalls == 2               \* recorded calls of the scorer in the score formula runs
MaxManyKeys == 11                  \* entries set in the session of the long promotion runs
MaxManyTime == 2                   \* clock ticks in the long promotion runs
MaxRaceTime == 1                  \* clock ticks in the concurrent promotion runs
MaxConsolidateLtm == 5      \* long-term entries at the start of a consolidation pass

(***************************************************************************)
(* Strings.                                                                *)
(***************************************************************************)
UpperChars == <<"A","B","C","D","E","F","G","H","I","J","K","L","M",
                "N","O","P","Q","R","S","T","U","V","W","X","Y","Z">>
LowerChars == <<"a","b","c","d","e","f","g","h","i","j","k","l","m",
                "n","o","p","q","r","s","t","u","v","w","x","y","z">>

\* the lower-case letter of each upper-case letter
LowerOf ==
    [c \in {UpperChars[i] : i \in 1..26} |->
        LowerChars[CHOOSE i \in 1..26 : UpperChars[i] = c]]

LowerChar(c) == IF c \in DOMAIN LowerOf THEN LowerOf[c] ELSE c

\* a list built by a comprehension, as an explicit tuple
List(f) == f \o <<>>

\* str.lower()
Lower(t) == List([i \in 1..Len(t) |-> LowerChar(t[i])])

IsSpace(c) == c \in {" ", "\n", "\t"}

\* needle in hay
Contains(hay, needle) ==
    \E i \in 0..(Len(hay) - Len(needle)) :
        SubSeq(hay, i + 1, i + Len(needle)) = needle

\* hay.startswith(prefix)
StartsWith(hay, prefix) ==
    /\ Len(prefix) <= Len(hay)
    /\ SubSeq(hay, 1, Len(prefix)) = prefix

\* text[:n]
Prefix(t, n) == SubSeq(t, 1, IF Len(t) < n THEN Len(t) ELSE n)

RECURSIVE SplitFrom(_, _, _)
\* str.split() with no argument: maximal runs of non-whitespace, in order
SplitFrom(t, i, cur) ==
    IF i > Len(t)
    THEN IF cur = <<>> THEN <<>> ELSE <<cur>>
    ELSE IF IsSpace(t[i])
         THEN (IF cur = <<>> THEN <<>> ELSE <<cur>>) \o SplitFrom(t, i + 1, <<>>)
         ELSE SplitFrom(t, i + 1, Append(cur, t[i]))

Split(t) == SplitFrom(t, 1, <<>>)

RECURSIVE Join(_, _)
\* sep.join(parts)
Join(sep, parts) ==
    IF parts = <<>> THEN <<>>
    ELSE IF Len(parts) = 1 THEN parts[1]
    ELSE parts[1] \o sep \o Join(sep, Tail(parts))

Range(s) == {s[i] : i \in 1..Len(s)}

RECURSIVE Sum(_, _)
Sum(f, S) ==
    IF S = {} THEN 0
    ELSE LET x == CHOOSE y \in S : TRUE IN f[x] + Sum(f, S \ {x})

Min(a, b) == IF a < b THEN a ELSE b

(***************************************************************************)
(* Sample texts.                                                           *)
(***************************************************************************)
T_bug == <<"b","u","g">>                       \* one high-weight keyword
T_Bug == <<"B","u","g">>                       \* same words, other case
T_ok  == <<"o","k">>                           \* scores 0
T_fix == <<"f","i","x"," ","b","u","g">>       \* shares a word with T_bug
T_fx  == <<"f","i","x">>                       \* shares a word with T_fix
T_urgent == <<"u","r","g","e","n","t"," ","b","u","g","?">>
K_k == <<"k">>
K_j == <<"j">>
K_xk == <<"x",":","k">>                        \* a key with a colon in it

SampleTexts == {T_bug, T_Bug, T_ok, T_fix, T_fx}

\* Texts whose lower-cased word list is computed once and looked up afterwards
\* (a cache only: Words(t) is text.lower().split() for every t).
KeyedTexts == {k \o <<":", " ">> \o t : k \in {K_k, K_j}, t \in SampleTexts}

KnownTexts ==
    SampleTexts \cup {<<>>} \cup KeyedTexts
    \cup {a \o <<"\n">> \o b : a \in KeyedTexts, b \in KeyedTexts}

WordsMemo == [t \in KnownTexts |-> Split(Lower(t))]

\* text.lower().split()
Words(t) == IF t \in KnownTexts THEN WordsMemo[t] ELSE Split(Lower(t))

(***************************************************************************)
(* State.                                                                  *)
(***************************************************************************)
VARIABLES
    ltm,           \* the vector store's collection: sequence of points
    nextId,        \* ids handed out so far (uuid4: every id is fresh)
    with_vectors,  \* whether a point returned by the store's search carries its vector
    stm,           \* InMemorySTMBackend._store: session -> ordered key/entry list
    now,           \* the clock
    last,          \* the last completed operation: arguments, outcome, adapter calls
    scored,        \* the calls of score_importance made so far, with their results
    stm_backend,   \* "memory" (InMemorySTMBackend) or "redis" (RedisSTMBackend)
    written,       \* history: (session, key) -> the value last set and when, since the last clear
    worker,        \* the cleanup thread: where it is in cleanup_worker / cleanup_expired
    shutdown,      \* whether the application has asked the engine to shut down
    promoting      \* a promote_stm_to_ltm call between its read of the session and its end

vars == <<ltm, nextId, with_vectors, stm, now, last, scored, stm_backend, written, worker, shutdown, promoting>>

(***************************************************************************)
(* scoring.py: score_importance, in hundredths.                            *)
(***************************************************************************)
high_importance_keywords ==
    << <<"u","r","g","e","n","t">>, <<"a","s","a","p">>,
       <<"i","m","p","o","r","t","a","n","t">>,
       <<"c","r","i","t","i","c","a","l">>,
       <<"d","e","a","d","l","i","n","e">>, <<"m","e","e","t","i","n","g">>,
       <<"c","a","l","l">>, <<"e","m","e","r","g","e","n","c","y">>,
       <<"f","a","i","l">>, <<"e","r","r","o","r">>, <<"b","u","g">> >>

medium_importance_keywords ==
    << <<"r","e","m","i","n","d","e","r">>, <<"n","o","t","e">>,
       <<"r","e","m","e","m","b","e","r">>,
       <<"f","o","l","l","o","w"," ","u","p">>, <<"t","a","s","k">>,
       <<"t","o","d","o">>, <<"s","c","h","e","d","u","l","e">>,
       <<"p","l","a","n">> >>

question_words ==
    << <<"w","h","a","t">>, <<"h","o","w">>, <<"w","h","y">>,
       <<"w","h","e","n">>, <<"w","h","e","r","e">> >>

\* context is [conversation_length, user_explicitly_asked_to_remember]
NoContext == [conversation_length |-> 0, user_explicitly_asked_to_remember |-> FALSE]

\* the part of the score that depends on the text alone: keyword buckets,
\* length bonus (the > 500 branch is an elif of the > 200 test), question bonus
TextPoints(text) ==
    LET text_lower == Lower(text)
        high_matches ==
            Cardinality({i \in 1..Len(high_importance_keywords) :
                            Contains(text_lower, high_importance_keywords[i])})
        medium_matches ==
            Cardinality({i \in 1..Len(medium_importance_keywords) :
                            Contains(text_lower, medium_importance_keywords[i])})
        length_bonus == IF Len(text) > 200 THEN 10
                        ELSE IF Len(text) > 500 THEN 20 ELSE 0
        question_bonus ==
            IF \/ Contains(text, <<"?">>)
               \/ \E i \in 1..Len(question_words) : StartsWith(text_lower, question_words[i])
            THEN 10 ELSE 0
    IN  high_matches * 30 + medium_matches * 15 + length_bonus + question_bonus

TextPointsMemo == [t \in KnownTexts |-> TextPoints(t)]

\* variant: the > 500 test comes first, so a text above 500 characters gets 0.2
score_importance_LongFirst(text, context) ==
    LET long_bonus == IF Len(text) > 500 THEN 10 ELSE 0
        conv_bonus == IF context.conversation_length > 10 THEN 10 ELSE 0
        remember_bonus == IF context.user_explicitly_asked_to_remember THEN 40 ELSE 0
    IN  Min(TextPoints(text) + long_bonus + conv_bonus + remember_bonus, 100)

\* variant: a scorer that looks at the long-term store
score_importance_Stateful(text, context) ==
    LET conv_bonus == IF context.conversation_length > 10 THEN 10 ELSE 0
        remember_bonus == IF context.user_explicitly_asked_to_remember THEN 40 ELSE 0
        stored_bonus == IF ltm # <<>> THEN 10 ELSE 0
    IN  Min(TextPoints(text) + conv_bonus + remember_bonus + stored_bonus, 100)

score_importance(text, context) ==
    LET text_points == IF text \in KnownTexts THEN TextPointsMemo[text]
                       ELSE TextPoints(text)
        conv_bonus == IF context.conversation_length > 10 THEN 10 ELSE 0
        remember_bonus == IF context.user_explicitly_asked_to_remember THEN 40 ELSE 0
    IN  Min(text_points + conv_bonus + remember_bonus, 100)

(***************************************************************************)
(* Sample identifiers.                                                     *)
(***************************************************************************)
Users == {"u1", "u2"}
Convs == {"", "c1"}          \* "" : no conversation_id given (falsy in the code)
Sessions == {"s1", "s2"}
Keys == {K_k, K_j}

(***************************************************************************)
(* Embedding provider and vector similarity.  The provider is an external  *)
(* model; it is represented by a bag-of-words vector over the lower-cased  *)
(* words of the text plus one constant component: deterministic, equal     *)
(* texts get equal vectors, texts differing only in case too.              *)
(***************************************************************************)
WordCount(w, words) == Cardinality({i \in 1..Len(words) : words[i] = w})

\* dot product of the vectors of two word lists
DotWords(wa, wb) ==
    1 + Sum([w \in Range(wa) |-> WordCount(w, wa) * WordCount(w, wb)], Range(wa))

\* dot product of encode(a) and encode(b)
Dot(a, b) == DotWords(Words(a), Words(b))

\* ab / sqrt(aa * bb) >= pct / 100, for dot products ab >= 0 and aa, bb > 0
RatioAtLeast(ab, aa, bb, pct) == ab * ab * 10000 >= pct * pct * aa * bb

\* cosine_similarity(encode(a), encode(b)) >= pct / 100
CosAtLeast(a, b, pct) == RatioAtLeast(Dot(a, b), Dot(a, a), Dot(b, b), pct)

(***************************************************************************)
(* settings.py                                                             *)
(***************************************************************************)
DEDUPLICATION_THRESHOLD == 92
MIN_SEARCH_SCORE == 30
LTM_PRUNE_AFTER_SUMMARY == TRUE

(***************************************************************************)
(* Long-term store adapter (QdrantLTMBackend).                             *)
(***************************************************************************)
\* schema.LongTermMemoryEntry / MemoryEntry: the timestamp of an entry read from
\* the store is the time the entry was created (created_at)
created_at(point) == point.timestamp

\* metadata dict; -1 / "" / <<>> stand for a key that is not present
EmptyMeta ==
    [importance |-> -1, conversation_id |-> "", source |-> "", type |-> "",
     is_summary |-> FALSE, original_id |-> 0, consolidated_from |-> <<>>,
     consolidated_at |-> -1, source_entries |-> <<>>]

\* filters dict of a search: user_id and metadata.conversation_id ("" : key not set)
NoFilter == [user_id |-> "", conversation_id |-> ""]

\* variant: the owner condition is not applied
MatchesFilter_AnyOwner(p, f) ==
    f.conversation_id # "" => p.metadata.conversation_id = f.conversation_id

MatchesFilter(p, f) ==
    /\ f.user_id # "" => p.user_id = f.user_id
    /\ f.conversation_id # "" => p.metadata.conversation_id = f.conversation_id

\* client.search: the points matching the filter with score >= min_score, best
\* score first (equal scores in store order), at most top_k of them.
\* The call passes no with_vectors argument, so the vector of a returned point is
\* present only when the store returns vectors unasked.
\* SearchHits ranks the candidates cand given, per point i, the dot products
\* qx[i] (query . point) and xx[i] (point . point), and qq (query . query): the
\* cosine of point i to the query is qx[i] / sqrt(qq * xx[i]).
SearchHits(store, cand, qx, xx, qq, top_k, min_score) ==
    LET hits == {i \in cand : RatioAtLeast(qx[i], qq, xx[i], min_score)}
        before(i, j) == \/ qx[i] * qx[i] * xx[j] > qx[j] * qx[j] * xx[i]
                        \/ /\ qx[i] * qx[i] * xx[j] = qx[j] * qx[j] * xx[i]
                           /\ i < j
        rank == [i \in hits |-> 1 + Cardinality({j \in hits : before(j, i)})]
        n == Min(top_k, Cardinality(hits))
    IN  List([r \in 1..n |->
            LET i == CHOOSE k \in hits : rank[k] = r
            IN  [id |-> store[i].id, user_id |-> store[i].user_id,
                 text |-> store[i].text, metadata |-> store[i].metadata,
                 has_embedding |-> with_vectors,
                 timestamp |-> created_at(store[i])]])

Backend_search(store, query_text, top_k, filters, min_score) ==
    SearchHits(store,
               {i \in 1..Len(store) : MatchesFilter(store[i], filters)},
               List([i \in 1..Len(store) |-> Dot(query_text, store[i].text)]),
               List([i \in 1..Len(store) |-> Dot(store[i].text, store[i].text)]),
               Dot(query_text, query_text), top_k, min_score)

\* client.upsert of a new point
Backend_add_entry(store, id, user_id, text, metadata, conversation_id, ts) ==
    Append(store,
           [id |-> id, user_id |-> user_id, text |-> text,
            metadata |-> IF conversation_id # ""
                         THEN [metadata EXCEPT !.conversation_id = conversation_id]
                         ELSE metadata,
            timestamp |-> ts])

\* client.scroll with vectors: every point
Backend_export_all(store) ==
    List([i \in 1..Len(store) |->
        [id |-> store[i].id, user_id |-> store[i].user_id,
         text |-> store[i].text, metadata |-> store[i].metadata,
         has_embedding |-> TRUE, timestamp |-> created_at(store[i])]])

\* client.delete of the points with the given ids
RECURSIVE Backend_delete_entries(_, _)
Backend_delete_entries(store, ids) ==
    IF store = <<>> THEN <<>>
    ELSE (IF Head(store).id \in ids THEN <<>> ELSE <<Head(store)>>)
         \o Backend_delete_entries(Tail(store), ids)

(***************************************************************************)
(* LongTermMemory.add_entry: deduplication, then insert.                   *)
(* An operation's outcome is [status, id, store, calls]: status "ok" with  *)
(* id 0 for None, or "raised" when the adapter call number fail_at fails   *)
(* (0: no call fails); calls lists the adapter calls made.                 *)
(***************************************************************************)
IsDuplicate(existing_entries, text) ==
    \E k \in 1..Len(existing_entries) :
        /\ existing_entries[k].has_embedding
        /\ CosAtLeast(text, existing_entries[k].text, DEDUPLICATION_THRESHOLD)

\* variant: a failed adapter call is made a second time, and then succeeds
LTM_add_entry_Retry(store, new_id, user_id, text, metadata, conversation_id, ts, fail_at) ==
    LET search_filters == [user_id |-> user_id, conversation_id |-> conversation_id]
        existing_entries == Backend_search(store, text, 3, search_filters, MIN_SEARCH_SCORE)
        searches == IF fail_at = 1 THEN <<"search", "search">> ELSE <<"search">>
        upserts == IF fail_at = 2 THEN <<"upsert", "upsert">> ELSE <<"upsert">>
    IN  IF IsDuplicate(existing_entries, text)
        THEN [status |-> "ok", id |-> 0, store |-> store, calls |-> searches]
        ELSE [status |-> "ok", id |-> new_id,
              store |-> Backend_add_entry(store, new_id, user_id, text, metadata,
                                          conversation_id, ts),
              calls |-> searches \o upserts]

LTM_add_entry(store, new_id, user_id, text, metadata, conversation_id, ts, fail_at) ==
    LET search_filters == [user_id |-> user_id, conversation_id |-> conversation_id]
        existing_entries == Backend_search(store, text, 3, search_filters, MIN_SEARCH_SCORE)
    IN  IF fail_at = 1
        THEN [status |-> "raised", id |-> 0, store |-> store, calls |-> <<"search">>]
        ELSE IF IsDuplicate(existing_entries, text)
        THEN [status |-> "ok", id |-> 0, store |-> store, calls |-> <<"search">>]
        ELSE IF fail_at = 2
        THEN [status |-> "raised", id |-> 0, store |-> store,
              calls |-> <<"search", "upsert">>]
        ELSE [status |-> "ok", id |-> new_id,
              store |-> Backend_add_entry(store, new_id, user_id, text, metadata,
                                          conversation_id, ts),
              calls |-> <<"search", "upsert">>]

\* MemoryManager.add_long_term; importance -1 : argument not given
add_long_term(store, new_id, user_id, text, metadata, importance, conversation_id, context, ts, fail_at) ==
    LET imp == IF importance = -1 THEN score_importance(text, context) ELSE importance
    IN  LTM_add_entry(store, new_id, user_id, text,
                      [metadata EXCEPT !.importance = imp], conversation_id, ts, fail_at)


SEARCH_LONG_TERM_MIN_SCORE == 30     \* default min_score of search_long_term

\* MemoryManager.search_long_term: the hits as MemoryEntry values
AsMemoryEntries(ltm_results) ==
    List([k \in 1..Len(ltm_results) |->
            [id |-> ltm_results[k].id, user_id |-> ltm_results[k].user_id,
             text |-> ltm_results[k].text, metadata |-> ltm_results[k].metadata,
             key |-> <<>>, timestamp |-> ltm_results[k].timestamp,
             source |-> "long_term",
             importance |-> IF ltm_results[k].metadata.importance = -1 THEN 50
                            ELSE ltm_results[k].metadata.importance]])

search_long_term(store, query, user_id, top_k, filters, min_score) ==
    AsMemoryEntries(
        Backend_search(store, query, top_k,
                       [filters EXCEPT !.user_id =
                           IF user_id # "" THEN user_id ELSE filters.user_id],
                       min_score))

(***************************************************************************)
(* Short-term store (InMemorySTMBackend behind ShortTermMemory).  A        *)
(* session's dict is an ordered list of [key, value, timestamp]: a new key *)
(* is appended, an existing key keeps its place.                           *)
(***************************************************************************)
ttl == 1           \* InMemorySTMBackend.ttl, in clock ticks

\* variant: no entry is ever taken as expired
_is_expired_Never(timestamp, t) == FALSE

_is_expired(timestamp, t) == t - timestamp > ttl

RECURSIVE SelectSeq2(_, _)
\* list comprehension with a state-dependent test: the elements e with keep[e]
SelectSeq2(s, keep) ==
    IF s = <<>> THEN <<>>
    ELSE (IF Head(s) \in keep THEN <<Head(s)>> ELSE <<>>) \o SelectSeq2(Tail(s), keep)

\* schema.ShortTermMemoryEntry: the timestamp is the time of construction
ShortTermMemoryEntry(key, value, t) == [key |-> key, value |-> value, timestamp |-> t]

SessionData(store, session_id) ==
    IF session_id \in DOMAIN store THEN store[session_id] ELSE <<>>

\* InMemorySTMBackend.set
STM_set(store, session_id, key, value, t) ==
    LET data == SessionData(store, session_id)
        entry == ShortTermMemoryEntry(key, value, t)
        data2 == IF \E i \in 1..Len(data) : data[i].key = key
                 THEN List([i \in 1..Len(data) |->
                               IF data[i].key = key THEN entry ELSE data[i]])
                 ELSE Append(data, entry)
    IN  [s \in DOMAIN store \cup {session_id} |->
            IF s = session_id THEN data2 ELSE store[s]]

\* InMemorySTMBackend.get_all / ShortTermMemory.get_all: the live entries, in order
STM_get_all(store, session_id, t) ==
    LET data == SessionData(store, session_id)
    IN  SelectSeq2(data, {e \in Range(data) : ~_is_expired(e.timestamp, t)})

\* InMemorySTMBackend.get / ShortTermMemory.get; <<>> is the empty string
STM_get(store, session_id, key, t) ==
    LET data == SessionData(store, session_id)
    IN  IF \E i \in 1..Len(data) :
              data[i].key = key /\ ~_is_expired(data[i].timestamp, t)
        THEN (CHOOSE e \in Range(data) : e.key = key).value
        ELSE <<>>

\* InMemorySTMBackend.clear
STM_clear(store, session_id) ==
    [s \in DOMAIN store \ {session_id} |-> store[s]]

\* one session's part of InMemorySTMBackend.cleanup_expired: its dict after the
\* expired keys are deleted
ExpiredDeleted(store, session_id, t) ==
    [s \in DOMAIN store |->
        IF s = session_id THEN STM_get_all(store, session_id, t) ELSE store[s]]

\* variant: a session with an expired entry is dropped whole
cleanup_expired_WholeSession(store, t) ==
    [s \in {x \in DOMAIN store : STM_get_all(store, x, t) = store[x]} |-> store[s]]

\* InMemorySTMBackend.cleanup_expired run from start to end by one caller
\* (ShortTermMemory.cleanup_expired): the expired keys of every session are
\* deleted, then the sessions left empty
cleanup_expired(store, t) ==
    [s \in {x \in DOMAIN store : STM_get_all(store, x, t) # <<>>} |->
        STM_get_all(store, s, t)]

(***************************************************************************)
(* RedisSTMBackend.  The server's keyspace is a map from the key string to *)
(* the stored entry and the time of the SETEX; a key is gone once its      *)
(* time to live has passed.                                                *)
(***************************************************************************)
\* the session ids in use, as texts
SessionText ==
    ("" :> <<>>) @@ ("s1" :> <<"s","1">>) @@ ("s2" :> <<"s","2">>)
    @@ ("s1:x" :> <<"s","1",":","x">>)

\* f"stm:{session_id}:{key}"; with no key, the prefix of the pattern stm:<id>:*
_key(session_id, key) ==
    <<"s","t","m",":">> \o SessionText[session_id] \o <<":">> \o key

\* what the server still holds at time t
Redis_expire(store, t) ==
    [rk \in {k \in DOMAIN store : t - store[k].set_at < ttl} |-> store[rk]]

\* redis_client.keys(self._key(session_id)): the keys matching stm:<id>:*
Redis_keys(store, session_id) ==
    {rk \in DOMAIN store : StartsWith(rk, _key(session_id, <<>>))}

\* redis_key.decode().split(":")[-1]
LastSegment(rk) ==
    LET colons == {i \in 1..Len(rk) : rk[i] = ":"}
        from == IF colons = {} THEN 1
                ELSE 1 + CHOOSE i \in colons : \A j \in colons : j <= i
    IN  SubSeq(rk, from, Len(rk))

Redis_set(store, session_id, key, value, t) ==
    [rk \in DOMAIN store \cup {_key(session_id, key)} |->
        IF rk = _key(session_id, key)
        THEN [entry |-> ShortTermMemoryEntry(key, value, t), set_at |-> t]
        ELSE store[rk]]

Redis_get(store, session_id, key) ==
    IF _key(session_id, key) \in DOMAIN store
    THEN store[_key(session_id, key)].entry.value
    ELSE <<>>

\* the dicts get_all can build, as sets of <<key, value>>: one entry per key after
\* the last colon; of two keys with the same last part the one KEYS lists later
\* stays, and KEYS lists in no particular order
Redis_get_all(store, session_id) ==
    LET keys == Redis_keys(store, session_id)
        clean == {LastSegment(rk) : rk \in keys}
    IN  {{<<c, store[pick[c]].entry.value>> : c \in clean} :
            pick \in {f \in [clean -> keys] : \A c \in clean : LastSegment(f[c]) = c}}

Redis_clear(store, session_id) ==
    [rk \in DOMAIN store \ Redis_keys(store, session_id) |-> store[rk]]

(***************************************************************************)
(* ShortTermMemory over the configured backend.                            *)
(***************************************************************************)
ShortTermMemory_set(store, session_id, key, value, t) ==
    IF stm_backend = "redis" THEN Redis_set(store, session_id, key, value, t)
    ELSE STM_set(store, session_id, key, value, t)

ShortTermMemory_get(store, session_id, key, t) ==
    IF stm_backend = "redis" THEN Redis_get(store, session_id, key)
    ELSE STM_get(store, session_id, key, t)

\* the dicts get_all can return, as sets of <<key, value>>
ShortTermMemory_get_all(store, session_id, t) ==
    IF stm_backend = "redis" THEN Redis_get_all(store, session_id)
    ELSE {{<<e.key, e.value>> : e \in Range(STM_get_all(store, session_id, t))}}

ShortTermMemory_clear(store, session_id) ==
    IF stm_backend = "redis" THEN Redis_clear(store, session_id)
    ELSE STM_clear(store, session_id)

\* the history of writes: after a set, and after a clear of a session
Written_set(w, session_id, key, value, t) ==
    [p \in DOMAIN w \cup {<<session_id, key>>} |->
        IF p = <<session_id, key>> THEN [value |-> value, at |-> t] ELSE w[p]]

Written_clear(w, session_id) ==
    [p \in {q \in DOMAIN w : q[1] # session_id} |-> w[p]]

(***************************************************************************)
(* MemoryManager.recall                                                    *)
(***************************************************************************)
\* the entries of stm_data whose value contains the query, case-insensitively
MatchingQuery(stm_data, query) ==
    SelectSeq2(stm_data,
               {e \in Range(stm_data) : Contains(Lower(e.value), Lower(query))})

\* the matching short-term entries as MemoryEntry values
ShortTermEntries(hits, user_id, t) ==
    List([k \in 1..Len(hits) |->
        [id |-> 0, user_id |-> user_id, text |-> hits[k].value,
         metadata |-> EmptyMeta, key |-> hits[k].key, timestamp |-> t,
         source |-> "short_term", importance |-> 50]])

\* the short-term part of recall: nothing without a session id
StmMatches(store, user_id, query, session_id, t) ==
    ShortTermEntries(
        MatchingQuery(IF session_id # "" THEN STM_get_all(store, session_id, t)
                      ELSE <<>>, query),
        user_id, t)

\* variant: no long-term result is skipped
Combined_NoSkip(stm_entries, ltm_entries) == stm_entries \o ltm_entries

\* the long-term entries whose text no short-term entry has, after the short-term ones
Combined(stm_entries, ltm_entries) ==
    stm_entries \o
    SelectSeq2(ltm_entries,
               {e \in Range(ltm_entries) :
                   e.text \notin {stm_entries[k].text : k \in 1..Len(stm_entries)}})

\* variant: the long-term search is made whatever the short-term matches
RecallFrom_AlwaysSearch(stm_entries, ltm_entries, session_id, top_k, fail_at) ==
    IF fail_at = 1
    THEN [status |-> "raised", result |-> <<>>, calls |-> <<"search">>]
    ELSE [status |-> "ok", result |-> Prefix(Combined(stm_entries, ltm_entries), top_k),
          calls |-> <<"search">>]

\* recall once the short-term matches are known; ltm_entries is the result of the
\* long-term search, looked at only when that search is made
RecallFrom(stm_entries, ltm_entries, session_id, top_k, fail_at) ==
    IF session_id # "" /\ Len(stm_entries) >= top_k
    THEN [status |-> "ok", result |-> Prefix(stm_entries, top_k), calls |-> <<>>]
    ELSE IF fail_at = 1
    THEN [status |-> "raised", result |-> <<>>, calls |-> <<"search">>]
    ELSE [status |-> "ok", result |-> Prefix(Combined(stm_entries, ltm_entries), top_k),
          calls |-> <<"search">>]

recall(lstore, sstore, user_id, query, session_id, conversation_id, top_k, t, fail_at) ==
    RecallFrom(StmMatches(sstore, user_id, query, session_id, t),
               search_long_term(lstore, query, user_id, top_k,
                                [NoFilter EXCEPT !.conversation_id = conversation_id],
                                SEARCH_LONG_TERM_MIN_SCORE),
               session_id, top_k, fail_at)

(***************************************************************************)
(* MemoryManager.promote_stm_to_ltm                                        *)
(***************************************************************************)
PromoteMeta == [EmptyMeta EXCEPT !.source = "stm_promotion"]

\* "\n".join(f"{k}: {v}" for k, v in stm_data.items())
CombinedText(stm_data) ==
    Join(<<"\n">>, List([k \in 1..Len(stm_data) |->
                       stm_data[k].key \o <<":", " ">> \o stm_data[k].value]))

PromoteScore(stm_data) ==
    score_importance(CombinedText(stm_data),
                     [NoContext EXCEPT !.conversation_length = Len(stm_data)])

\* outcome [status, id, store (long-term), stm (short-term), calls]
\* variant: the session is kept
Promoted_KeepSession(added, lstore, sstore, session_id) ==
    IF added.status = "raised"
    THEN [status |-> "raised", id |-> 0, store |-> lstore, stm |-> sstore,
          calls |-> added.calls]
    ELSE [status |-> "ok", id |-> added.id, store |-> added.store,
          stm |-> sstore, calls |-> added.calls]

\* the end of promote_stm_to_ltm: the session is cleared once the insert returns
Promoted(added, lstore, sstore, session_id) ==
    IF added.status = "raised"
    THEN [status |-> "raised", id |-> 0, store |-> lstore, stm |-> sstore,
          calls |-> added.calls]
    ELSE [status |-> "ok", id |-> added.id, store |-> added.store,
          stm |-> STM_clear(sstore, session_id), calls |-> added.calls]

\* variant: the score is taken without the number of entries
PromoteData_NoLength(stm_data, lstore, sstore, new_id, session_id, user_id, conversation_id, min_importance, t, fail_at) ==
    LET combined_text == CombinedText(stm_data)
        score == score_importance(combined_text, NoContext)
    IN  IF stm_data = <<>>
        THEN [status |-> "ok", id |-> 0, store |-> lstore, stm |-> sstore,
              calls |-> <<>>]
        ELSE IF score >= min_importance
        THEN Promoted(add_long_term(lstore, new_id, user_id, combined_text,
                                    PromoteMeta, score, conversation_id, NoContext,
                                    t, fail_at),
                      lstore, sstore, session_id)
        ELSE [status |-> "ok", id |-> 0, store |-> lstore, stm |-> sstore,
              calls |-> <<>>]

\* variant: the score is not compared with min_importance
PromoteData_NoMinimum(stm_data, lstore, sstore, new_id, session_id, user_id, conversation_id, min_importance, t, fail_at) ==
    IF stm_data = <<>>
    THEN [status |-> "ok", id |-> 0, store |-> lstore, stm |-> sstore, calls |-> <<>>]
    ELSE Promoted(add_long_term(lstore, new_id, user_id, CombinedText(stm_data),
                                PromoteMeta, -1, conversation_id, NoContext, t, fail_at),
                  lstore, sstore, session_id)

PromoteData(stm_data, lstore, sstore, new_id, session_id, user_id, conversation_id, min_importance, t, fail_at) ==
    LET combined_text == CombinedText(stm_data)
        context == [NoContext EXCEPT !.conversation_length = Len(stm_data)]
        score == score_importance(combined_text, context)
    IN  IF stm_data = <<>>
        THEN [status |-> "ok", id |-> 0, store |-> lstore, stm |-> sstore,
              calls |-> <<>>]
        ELSE IF score >= min_importance
        THEN Promoted(add_long_term(lstore, new_id, user_id, combined_text,
                                    PromoteMeta, score, conversation_id, context,
                                    t, fail_at),
                      lstore, sstore, session_id)
        ELSE [status |-> "ok", id |-> 0, store |-> lstore, stm |-> sstore,
              calls |-> <<>>]

promote_stm_to_ltm(lstore, sstore, new_id, session_id, user_id, conversation_id, min_importance, t, fail_at) ==
    PromoteData(STM_get_all(sstore, session_id, t), lstore, sstore, new_id,
                session_id, user_id, conversation_id, min_importance, t, fail_at)

(***************************************************************************)
(* lifecycle.py: MemoryLifecycleManager                                    *)
(***************************************************************************)
GET_ALL_TOP_K == 1000       \* top_k of the "empty query to get all" searches

\* |words1 & words2| / |words1 | words2| >= pct / 100 ; 0.0 for an empty union
JaccardAtLeast(words1, words2, pct) ==
    IF words1 \cup words2 = {} THEN 0 >= pct
    ELSE Cardinality(words1 \cap words2) * 100 >= pct * Cardinality(words1 \cup words2)

\* _calculate_similarity(text1, text2) >= pct / 100  (Jaccard on word sets)
_calculate_similarity_at_least(text1, text2, pct) ==
    JaccardAtLeast(Range(Words(text1)), Range(Words(text2)), pct)

\* variant: the texts are merged last to first
_merge_memories_Reversed(memories) ==
    <<"C","o","n","s","o","l","i","d","a","t","e","d"," ",
      "m","e","m","o","r","y",":"," ">>
    \o Join(<<" ", "|", " ">>,
            List([k \in 1..Len(memories) |-> memories[Len(memories) + 1 - k].text]))

\* _merge_memories: f"Consolidated memory: {' | '.join(texts)}"
_merge_memories(memories) ==
    <<"C","o","n","s","o","l","i","d","a","t","e","d"," ",
      "m","e","m","o","r","y",":"," ">>
    \o Join(<<" ", "|", " ">>, List([k \in 1..Len(memories) |-> memories[k].text]))

\* _delete_memory: the deletion is commented out; it logs and returns True
_delete_memory(store, memory_id) == [ok |-> TRUE, store |-> store]

Ids(memories) == List([k \in 1..Len(memories) |-> memories[k].id])

RECURSIVE DeleteEach(_, _)
\* for memory in ...: self._delete_memory(memory.id)
DeleteEach(store, ids) ==
    IF ids = <<>> THEN store
    ELSE DeleteEach(_delete_memory(store, Head(ids)).store, Tail(ids))

\* variant: processed memories are compared too
SimilarMemories_Any(all_memories, i, processed_ids, similarity_threshold) ==
    LET rest == SubSeq(all_memories, i + 1, Len(all_memories))
    IN  SelectSeq2(rest,
            {m \in Range(rest) :
                _calculate_similarity_at_least(all_memories[i].text, m.text,
                                               similarity_threshold)})

\* the memories after position i that are not processed and are similar to memory i
SimilarMemories(all_memories, i, processed_ids, similarity_threshold) ==
    LET rest == SubSeq(all_memories, i + 1, Len(all_memories))
    IN  SelectSeq2(rest,
            {m \in Range(rest) :
                /\ m.id \notin processed_ids
                /\ _calculate_similarity_at_least(all_memories[i].text, m.text,
                                                  similarity_threshold)})

\* after the merged entry's insert: the group's memories are "deleted" and marked
\* processed; the id the insert returned is not looked at
GroupMerged(added, group_ids, acc) ==
    IF added.status = "raised"
    THEN [acc EXCEPT !.status = "raised", !.calls = acc.calls \o added.calls]
    ELSE [acc EXCEPT
            !.store = DeleteEach(added.store, group_ids),
            !.next = IF added.id # 0 THEN acc.next + 1 ELSE acc.next,
            !.processed_ids = acc.processed_ids \cup Range(group_ids),
            !.count = acc.count + Len(group_ids),
            !.calls = acc.calls \o added.calls,
            !.groups = Append(acc.groups, group_ids)]

\* one iteration of the outer loop for an unprocessed memory1
ConsolidateGroup(memory1, similar_memories, acc, user_id, t, fail_at) ==
    LET group == <<memory1>> \o similar_memories
    IN  IF similar_memories = <<>> THEN acc
        ELSE GroupMerged(
                 add_long_term(acc.store, acc.next, user_id, _merge_memories(group),
                     [memory1.metadata EXCEPT !.consolidated_from = Ids(group),
                                              !.consolidated_at = t],
                     -1, "", NoContext, t,
                     IF fail_at > Len(acc.calls) THEN fail_at - Len(acc.calls) ELSE 0),
                 Ids(group), acc)

RECURSIVE ConsolidateFrom(_, _, _, _, _, _, _)
\* the loop of consolidate_similar_memories from index i on; acc carries the
\* store, the next fresh id, processed_ids, consolidated_count, the adapter
\* calls made so far, the groups formed and the status
ConsolidateFrom(all_memories, i, acc, user_id, similarity_threshold, t, fail_at) ==
    IF i > Len(all_memories) \/ acc.status = "raised" THEN acc
    ELSE ConsolidateFrom(all_memories, i + 1,
             IF all_memories[i].id \in acc.processed_ids THEN acc
             ELSE ConsolidateGroup(all_memories[i],
                      SimilarMemories(all_memories, i, acc.processed_ids,
                                      similarity_threshold),
                      acc, user_id, t, fail_at),
             user_id, similarity_threshold, t, fail_at)

\* consolidate_similar_memories; outcome [status, store, next, count, calls, groups, ...]
consolidate_similar_memories(store, next, user_id, similarity_threshold, t, fail_at) ==
    LET acc0 == [status |-> "ok", store |-> store, next |-> next,
                 processed_ids |-> {}, count |-> 0, calls |-> <<"search">>,
                 groups |-> <<>>]
    IN  IF fail_at = 1 THEN [acc0 EXCEPT !.status = "raised"]
        ELSE ConsolidateFrom(
                 search_long_term(store, <<>>, user_id, GET_ALL_TOP_K,
                                  NoFilter, SEARCH_LONG_TERM_MIN_SCORE),
                 1, acc0, user_id, similarity_threshold, t, fail_at)


\* _summarize_memory: f"Summary: {memory.text[:100]}..."
SummaryText(text) ==
    <<"S","u","m","m","a","r","y",":"," ">> \o Prefix(text, 100) \o <<".",".",".">>

\* the end of _summarize_memory: any exception of the insert is caught and gives
\* False; the insert's return value is not looked at
Summarized(added, store, next, memory_id) ==
    IF added.status = "raised"
    THEN [ok |-> FALSE, store |-> store, next |-> next, calls |-> added.calls]
    ELSE [ok |-> _delete_memory(added.store, memory_id).ok,
          store |-> _delete_memory(added.store, memory_id).store,
          next |-> IF added.id # 0 THEN next + 1 ELSE next,
          calls |-> added.calls]

\* _summarize_memory; outcome [ok, store, next, calls]
_summarize_memory(store, next, memory, t, fail_at) ==
    Summarized(add_long_term(store, next, memory.user_id, SummaryText(memory.text),
                   [memory.metadata EXCEPT !.original_id = memory.id,
                                           !.is_summary = TRUE],
                   -1, "", NoContext, t, fail_at),
               store, next, memory.id)

\* the entries created before the cutoff
CreatedBefore(all_memories, cutoff_date) ==
    SelectSeq2(all_memories,
               {m \in Range(all_memories) : m.timestamp < cutoff_date})

\* _get_memories_before_date
_get_memories_before_date(store, user_id, cutoff_date) ==
    CreatedBefore(search_long_term(store, <<>>, user_id, GET_ALL_TOP_K,
                                   NoFilter, SEARCH_LONG_TERM_MIN_SCORE),
                  cutoff_date)

\* archive_old_memories, the branch importance < importance_threshold
ArchiveDeleted(del, memory_id, acc) ==
    [acc EXCEPT !.store = del.store,
                !.deleted = acc.deleted + (IF del.ok THEN 1 ELSE 0),
                !.deleted_ids = IF del.ok THEN Append(acc.deleted_ids, memory_id)
                                ELSE acc.deleted_ids]

\* archive_old_memories, the else branch
ArchiveSummarized(summ, memory_id, acc) ==
    [acc EXCEPT !.store = summ.store,
                !.next = summ.next,
                !.calls = acc.calls \o summ.calls,
                !.summarized = acc.summarized + (IF summ.ok THEN 1 ELSE 0),
                !.summarized_ids = IF summ.ok
                                   THEN Append(acc.summarized_ids, memory_id)
                                   ELSE acc.summarized_ids]

RECURSIVE ArchiveFrom(_, _, _, _, _, _)
\* the loop of archive_old_memories
ArchiveFrom(old_memories, i, acc, importance_threshold, t, fail_at) ==
    IF i > Len(old_memories) THEN acc
    ELSE ArchiveFrom(old_memories, i + 1,
             IF old_memories[i].importance < importance_threshold
             THEN ArchiveDeleted(_delete_memory(acc.store, old_memories[i].id),
                                 old_memories[i].id, acc)
             ELSE ArchiveSummarized(
                      _summarize_memory(acc.store, acc.next, old_memories[i], t,
                          IF fail_at > Len(acc.calls) THEN fail_at - Len(acc.calls)
                          ELSE 0),
                      old_memories[i].id, acc),
             importance_threshold, t, fail_at)

\* archive_old_memories; outcome [status, store, next, deleted, summarized, calls, ...]
archive_old_memories(store, next, user_id, days_threshold, importance_threshold, t, fail_at) ==
    LET acc0 == [status |-> "ok", store |-> store, next |-> next, deleted |-> 0,
                 summarized |-> 0, calls |-> <<"search">>,
                 deleted_ids |-> <<>>, summarized_ids |-> <<>>]
    IN  IF fail_at = 1 THEN [acc0 EXCEPT !.status = "raised"]
        ELSE ArchiveFrom(_get_memories_before_date(store, user_id, t - days_threshold),
                         1, acc0, importance_threshold, t, fail_at)

(***************************************************************************)
(* LongTermMemory.summarize_old_memories (the definition in force: the     *)
(* later one in the class body).                                           *)
(***************************************************************************)
Digits == <<"0","1","2","3","4","5","6","7","8","9">>

RECURSIVE Str(_)
\* str(n) for n >= 0
Str(n) == IF n < 10 THEN <<Digits[n + 1]>>
          ELSE Str(n \div 10) \o <<Digits[(n % 10) + 1]>>

\* f"Summary of {len(old_entries)} old memories:\n{combined_text[:500]}..."
OldSummaryText(old_entries) ==
    <<"S","u","m","m","a","r","y"," ","o","f"," ">> \o Str(Len(old_entries))
    \o <<" ","o","l","d"," ","m","e","m","o","r","i","e","s",":","\n">>
    \o Prefix(Join(<<"\n">>,
                   List([k \in 1..Len(old_entries) |-> old_entries[k].text])), 500)
    \o <<".",".",".">>

\* the end of summarize_old_memories, after the summary's add_entry: the old
\* entries are deleted whatever add_entry returned
SummaryStored(added, old_ids, store, fail_at) ==
    IF added.status = "raised"
    THEN [status |-> "raised", id |-> 0, store |-> store,
          calls |-> <<"scroll">> \o added.calls]
    ELSE IF ~LTM_PRUNE_AFTER_SUMMARY
    THEN [status |-> "ok", id |-> added.id, store |-> added.store,
          calls |-> <<"scroll">> \o added.calls]
    ELSE IF fail_at = Len(added.calls) + 2
    THEN [status |-> "raised", id |-> 0, store |-> added.store,
          calls |-> <<"scroll">> \o added.calls \o <<"delete">>]
    ELSE [status |-> "ok", id |-> added.id,
          store |-> Backend_delete_entries(added.store, Range(old_ids)),
          calls |-> <<"scroll">> \o added.calls \o <<"delete">>]

\* the entries of the user created before the cutoff
OldEntries(all_entries, user_id, cutoff_date) ==
    SelectSeq2(all_entries,
               {e \in Range(all_entries) :
                   e.user_id = user_id /\ e.timestamp < cutoff_date})

\* outcome [status, id, store, calls]
summarize_old_memories(store, new_id, user_id, days_old, t, fail_at) ==
    LET old_entries == OldEntries(Backend_export_all(store), user_id, t - days_old)
    IN  IF fail_at = 1
        THEN [status |-> "raised", id |-> 0, store |-> store, calls |-> <<"scroll">>]
        ELSE IF old_entries = <<>>
        THEN [status |-> "ok", id |-> 0, store |-> store, calls |-> <<"scroll">>]
        ELSE SummaryStored(
                 LTM_add_entry(store, new_id, user_id, OldSummaryText(old_entries),
                     [EmptyMeta EXCEPT !.type = "summary",
                                       !.source_entries = Ids(old_entries)],
                     "", t, IF fail_at > 1 THEN fail_at - 1 ELSE 0),
                 Ids(old_entries), store, fail_at)


(***************************************************************************)
(* search.py: AdvancedSearch.  A SearchFilter value is a record; "" / -1 / *)
(* <<>> stand for a field left at None.  metadata_filters is a list of     *)
(* <<key, value>> pairs.                                                   *)
(***************************************************************************)
NoSearchFilter ==
    [user_id |-> "", date_range |-> <<>>, importance_min |-> -1,
     importance_max |-> -1, metadata_filters |-> <<>>, source |-> "",
     memory_type |-> ""]

\* one pass of "filtered_results = [r for r in filtered_results if ...]" per
\* metadata_filters item
RECURSIVE ApplyMetadataFilters(_, _)
ApplyMetadataFilters(results, metadata_filters) ==
    IF metadata_filters = <<>> THEN results
    ELSE ApplyMetadataFilters(
             SelectSeq2(results,
                 {r \in Range(results) :
                     r.metadata[Head(metadata_filters)[1]] = Head(metadata_filters)[2]}),
             Tail(metadata_filters))

\* _apply_filters: importance range, memory type, date range, custom metadata;
\* filters.source and filters.user_id are not read here
_apply_filters(results, filters) ==
    ApplyMetadataFilters(
        SelectSeq2(results,
            {r \in Range(results) :
                /\ filters.importance_min # -1 => r.importance >= filters.importance_min
                /\ filters.importance_max # -1 => r.importance <= filters.importance_max
                /\ filters.memory_type # "" => r.metadata.type = filters.memory_type
                /\ filters.date_range # <<>> =>
                      /\ filters.date_range[1] <= r.timestamp
                      /\ r.timestamp <= filters.date_range[2]}),
        filters.metadata_filters)

\* _semantic_search: search_long_term with top_k * 2, filters applied afterwards
_semantic_search(store, query, filters, top_k) ==
    Prefix(_apply_filters(
               search_long_term(store, query, filters.user_id, top_k * 2,
                                NoFilter, SEARCH_LONG_TERM_MIN_SCORE),
               filters),
           top_k)

\* _search_stm_keywords: "simplified version", returns the empty list
_search_stm_keywords(query_words, filters) == <<>>

\* _search_ltm_keywords: placeholder, returns the empty list
_search_ltm_keywords(query_words, filters) == <<>>

\* keyword_score(entry) * len(query_words): the query words that are a substring
\* of some word of the entry's text (the divisor is the same for every entry)
keyword_matches(entry, query_words) ==
    Cardinality({k \in 1..Len(query_words) :
                    \E w \in Range(Words(entry.text)) : Contains(w, query_words[k])})

\* list.sort(key=..., reverse=True): descending by key, equal keys keep their order
StableSortDesc(rows, keys) ==
    List([r \in 1..Len(rows) |->
            rows[CHOOSE i \in 1..Len(rows) :
                    r = 1 + Cardinality({j \in 1..Len(rows) :
                                            \/ keys[j] > keys[i]
                                            \/ keys[j] = keys[i] /\ j < i})]])

\* the end of _keyword_search: sort by keyword_score, cut to top_k
KeywordRanked(results, query_words, top_k) ==
    Prefix(StableSortDesc(results,
               List([i \in 1..Len(results) |-> keyword_matches(results[i], query_words)])),
           top_k)

\* _keyword_search
_keyword_search(query, filters, top_k) ==
    KeywordRanked(
        (IF filters.source # "long_term"
         THEN _search_stm_keywords(Words(query), filters) ELSE <<>>)
        \o (IF filters.source # "short_term"
            THEN _search_ltm_keywords(Words(query), filters) ELSE <<>>),
        Words(query), top_k)

\* _metadata_search
_metadata_search(store, query, filters, top_k) ==
    Prefix(_apply_filters(
               search_long_term(store, <<>>, filters.user_id, GET_ALL_TOP_K,
                                NoFilter, SEARCH_LONG_TERM_MIN_SCORE),
               filters),
           top_k)

\* _hybrid_search, the merge.  Scores are exact fractions over a common
\* divisor: with Ns = len(semantic_results) and Nk = len(keyword_results),
\*   semantic_score = 0.7 * (Ns - i) / Ns    keyword_score = 0.3 * (Nk - j) / Nk
\* and a row's score is score / den with den = 10 * Ns * Nk (an empty list
\* counts as length 1 in den and contributes 0).
SEMANTIC_WEIGHT == 7        \* 0.7, in tenths
KEYWORD_WEIGHT == 3         \* 0.3, in tenths

\* the last / first 1-based position of the text in the list, 0 when absent
LastIn(results, text) ==
    IF \E i \in 1..Len(results) : results[i].text = text
    THEN CHOOSE i \in 1..Len(results) :
            /\ results[i].text = text
            /\ \A k \in (i + 1)..Len(results) : results[k].text # text
    ELSE 0

FirstIn(results, text) ==
    IF \E i \in 1..Len(results) : results[i].text = text
    THEN CHOOSE i \in 1..Len(results) :
            /\ results[i].text = text
            /\ \A k \in 1..(i - 1) : results[k].text # text
    ELSE 0

\* the keys of combined_results in insertion order: a dict keeps a key at the
\* place of its first insertion
\* variant: every result gets a row of its own
FirstSeen_KeepAll(texts, seen) == texts

RECURSIVE FirstSeen(_, _)
FirstSeen(texts, seen) ==
    IF texts = <<>> THEN <<>>
    ELSE IF Head(texts) \in seen THEN FirstSeen(Tail(texts), seen)
    ELSE <<Head(texts)>> \o FirstSeen(Tail(texts), seen \cup {Head(texts)})

\* variant: the keyword score of a text found by both searches is dropped
CombinedRow_NoKeyword(semantic_results, keyword_results, text, i, j) ==
    [entry |-> IF i > 0 THEN semantic_results[i]
               ELSE keyword_results[FirstIn(keyword_results, text)],
     semantic |-> IF i > 0 THEN Len(semantic_results) - (i - 1) ELSE 0,
     keyword |-> IF i = 0 /\ j > 0 THEN Len(keyword_results) - (j - 1) ELSE 0,
     score |-> IF i > 0
               THEN SEMANTIC_WEIGHT * (Len(semantic_results) - (i - 1))
                    * (IF keyword_results = <<>> THEN 1 ELSE Len(keyword_results))
               ELSE IF j > 0
               THEN KEYWORD_WEIGHT * (Len(keyword_results) - (j - 1))
                    * (IF semantic_results = <<>> THEN 1 ELSE Len(semantic_results))
               ELSE 0,
     den |-> 10 * (IF semantic_results = <<>> THEN 1 ELSE Len(semantic_results))
                * (IF keyword_results = <<>> THEN 1 ELSE Len(keyword_results))]

\* the value of combined_results[text] after both loops; i and j are the last
\* positions of the text in the two lists: a later semantic result replaces the
\* whole value, a later keyword result replaces keyword_score only
CombinedRow(semantic_results, keyword_results, text, i, j) ==
    [entry |-> IF i > 0 THEN semantic_results[i]
               ELSE keyword_results[FirstIn(keyword_results, text)],
     semantic |-> IF i > 0 THEN Len(semantic_results) - (i - 1) ELSE 0,
     keyword |-> IF j > 0 THEN Len(keyword_results) - (j - 1) ELSE 0,
     score |-> (IF i > 0
                THEN SEMANTIC_WEIGHT * (Len(semantic_results) - (i - 1))
                     * (IF keyword_results = <<>> THEN 1 ELSE Len(keyword_results))
                ELSE 0)
               + (IF j > 0
                  THEN KEYWORD_WEIGHT * (Len(keyword_results) - (j - 1))
                       * (IF semantic_results = <<>> THEN 1 ELSE Len(semantic_results))
                  ELSE 0),
     den |-> 10 * (IF semantic_results = <<>> THEN 1 ELSE Len(semantic_results))
                * (IF keyword_results = <<>> THEN 1 ELSE Len(keyword_results))]

\* combined_results.items(), in insertion order
CombinedRows(semantic_results, keyword_results, keys) ==
    List([p \in 1..Len(keys) |->
            CombinedRow(semantic_results, keyword_results, keys[p],
                        LastIn(semantic_results, keys[p]),
                        LastIn(keyword_results, keys[p]))])

\* variant: the rows are returned in insertion order
SortedRows_Unsorted(rows) == rows

\* final_results after the sort
SortedRows(rows) ==
    StableSortDesc(rows, List([p \in 1..Len(rows) |-> rows[p].score]))

\* the merge of _hybrid_search: the sorted rows (final_results)
HybridRows(semantic_results, keyword_results) ==
    SortedRows(
        CombinedRows(semantic_results, keyword_results,
            FirstSeen(List([i \in 1..Len(semantic_results) |-> semantic_results[i].text])
                      \o List([j \in 1..Len(keyword_results) |-> keyword_results[j].text]),
                      {})))

\* the entries of the rows
EntriesOf(rows) == List([p \in 1..Len(rows) |-> rows[p].entry])

\* _hybrid_search: both searches with top_k * 2, the merge, cut to top_k
_hybrid_search(store, query, filters, top_k) ==
    EntriesOf(Prefix(HybridRows(_semantic_search(store, query, filters, top_k * 2),
                                _keyword_search(query, filters, top_k * 2)),
                     top_k))

\* AdvancedSearch.search: dispatch on the search type
AdvancedSearch_search(store, query, search_type, filters, top_k) ==
    IF search_type = "semantic" THEN _semantic_search(store, query, filters, top_k)
    ELSE IF search_type = "keyword" THEN _keyword_search(query, filters, top_k)
    ELSE IF search_type = "hybrid" THEN _hybrid_search(store, query, filters, top_k)
    ELSE _metadata_search(store, query, filters, top_k)

RECURSIVE import_json(_, _, _, _)
\* LongTermMemory.import_json: each entry of the file is handed to
\* self.backend.add_entry; outcome [status, store, next, calls]
import_json(store, next, entries, t) ==
    IF entries = <<>>
    THEN [status |-> "ok", store |-> store, next |-> next, calls |-> <<>>]
    ELSE LET entry == Head(entries)
             rest == import_json(
                         Backend_add_entry(store, next, entry.user_id, entry.text,
                                           entry.metadata,
                                           entry.metadata.conversation_id, t),
                         next + 1, Tail(entries), t)
         IN  [rest EXCEPT !.calls = <<"upsert">> \o rest.calls]

(***************************************************************************)
(* Operations as actions.  last records the operation just completed       *)
(* (arguments, outcome, adapter calls, the stores before it); prev is the  *)
(* call before that, in brief.                                             *)
(***************************************************************************)
\* the cleanup thread between two sweeps; failed: the last sweep raised
Asleep == [pc |-> "sleep", todo |-> {}, size |-> 0, expired_keys |-> {}, failed |-> FALSE]

NotPromoting == [pc |-> "idle"]

NoLast ==
    [op |-> "init", user |-> "", text |-> <<>>, conv |-> "", session |-> "",
     query |-> <<>>, top_k |-> 0, min_importance |-> 0, days |-> 0,
     threshold |-> 0, fail_at |-> 0,
     status |-> "ok", id |-> 0, result |-> <<>>, calls |-> <<>>,
     groups |-> <<>>, count |-> 0, deleted_ids |-> <<>>, summarized_ids |-> <<>>,
     deleted |-> 0, summarized |-> 0,
     search_type |-> "", filters |-> NoSearchFilter,
     semantic |-> <<>>, keyword |-> <<>>, merged |-> <<>>,
     key |-> <<>>, value |-> <<>>, map |-> {}, stm_data |-> <<>>,
     pre_ltm |-> <<>>, pre_stm |-> <<>>, pre_next |-> 1,
     prev |-> [op |-> "init", user |-> "", text |-> <<>>, conv |-> "",
               status |-> "ok", id |-> 0]]

Brief(l) == [op |-> l.op, user |-> l.user, text |-> l.text, conv |-> l.conv,
             status |-> l.status, id |-> l.id]

\* the record of an operation that starts in the current state
Started(op) ==
    [NoLast EXCEPT !.op = op, !.pre_ltm = ltm, !.pre_stm = stm, !.pre_next = nextId]

\* the record of a step whose outcome no property reads
Quiet(op) == [NoLast EXCEPT !.op = op]

Init ==
    /\ ltm = <<>>
    /\ nextId = 1
    /\ with_vectors \in BOOLEAN
    /\ stm = <<>>
    /\ now = 0
    /\ last = NoLast
    /\ scored = {}
    /\ stm_backend = "memory"
    /\ written = <<>>
    /\ worker = Asleep
    /\ shutdown = FALSE
    /\ promoting = NotPromoting

\* time passes; a Redis server drops the keys whose time to live has passed
Tick ==
    /\ now' = now + 1
    /\ stm' = IF stm_backend = "redis" THEN Redis_expire(stm, now + 1) ELSE stm
    /\ last' = Quiet("tick")
    /\ UNCHANGED <<ltm, nextId, with_vectors, scored, stm_backend, written, worker, shutdown, promoting>>

AddLongTerm(user_id, text, importance, conversation_id, fail_at) ==
    \E out \in {add_long_term(ltm, nextId, user_id, text, EmptyMeta, importance,
                             conversation_id, NoContext, now, fail_at)} :
        /\ ltm' = out.store
        /\ nextId' = IF out.id # 0 THEN nextId + 1 ELSE nextId
        /\ last' = [Started("add_long_term") EXCEPT
                       !.user = user_id, !.text = text, !.conv = conversation_id,
                       !.fail_at = fail_at, !.status = out.status, !.id = out.id,
                       !.calls = out.calls, !.prev = Brief(last)]
        /\ UNCHANGED <<with_vectors, scored, stm, now, stm_backend, written, worker, shutdown, promoting>>

SetShortTerm(session_id, key, value) ==
    /\ stm' = ShortTermMemory_set(stm, session_id, key, value, now)
    /\ written' = Written_set(written, session_id, key, value, now)
    /\ last' = [Quiet("set_short_term") EXCEPT
                   !.session = session_id, !.key = key, !.value = value]
    /\ UNCHANGED <<ltm, nextId, with_vectors, scored, now, stm_backend, worker, shutdown, promoting>>

GetShortTerm(session_id, key) ==
    /\ last' = [Started("get_short_term") EXCEPT
                   !.session = session_id, !.key = key,
                   !.value = ShortTermMemory_get(stm, session_id, key, now)]
    /\ UNCHANGED <<ltm, nextId, with_vectors, scored, stm, now, stm_backend, written, worker, shutdown, promoting>>

GetAllShortTerm(session_id) ==
    \E result \in ShortTermMemory_get_all(stm, session_id, now) :
        /\ last' = [Started("get_all_short_term") EXCEPT
                       !.session = session_id, !.map = result]
        /\ UNCHANGED <<ltm, nextId, with_vectors, scored, stm, now, stm_backend, written, worker, shutdown, promoting>>

ClearShortTerm(session_id) ==
    /\ stm' = ShortTermMemory_clear(stm, session_id)
    /\ written' = Written_clear(written, session_id)
    /\ last' = [Started("clear_short_term") EXCEPT !.session = session_id]
    /\ UNCHANGED <<ltm, nextId, with_vectors, scored, now, stm_backend, worker, shutdown, promoting>>

Recall(user_id, query, session_id, conversation_id, top_k, fail_at) ==
    \E out \in {recall(ltm, stm, user_id, query, session_id, conversation_id,
                      top_k, now, fail_at)} :
        /\ last' = [Started("recall") EXCEPT
                       !.user = user_id, !.query = query, !.session = session_id,
                       !.conv = conversation_id, !.top_k = top_k,
                       !.fail_at = fail_at, !.status = out.status,
                       !.result = out.result, !.calls = out.calls]
        /\ UNCHANGED <<ltm, nextId, with_vectors, scored, stm, now, stm_backend, written, worker, shutdown, promoting>>

Promote(session_id, user_id, conversation_id, min_importance, fail_at) ==
    \E out \in {promote_stm_to_ltm(ltm, stm, nextId, session_id, user_id,
                                  conversation_id, min_importance, now, fail_at)} :
        /\ ltm' = out.store
        /\ stm' = out.stm
        /\ written' = IF out.stm = stm THEN written
                       ELSE Written_clear(written, session_id)
        /\ nextId' = IF out.id # 0 THEN nextId + 1 ELSE nextId
        /\ last' = [Started("promote") EXCEPT
                       !.session = session_id, !.user = user_id,
                       !.conv = conversation_id, !.min_importance = min_importance,
                       !.fail_at = fail_at, !.status = out.status, !.id = out.id,
                       !.calls = out.calls,
                       !.stm_data = STM_get_all(stm, session_id, now)]
        /\ UNCHANGED <<with_vectors, scored, now, stm_backend, worker, shutdown, promoting>>

\* promote_stm_to_ltm called while other threads use the engine, first step: the
\* read of the session with get_all (line 172)
PromoteRead(session_id, user_id, conversation_id, min_importance) ==
    /\ promoting.pc = "idle"
    /\ promoting' = [pc |-> "read", session |-> session_id, user |-> user_id,
                     conv |-> conversation_id, min_importance |-> min_importance,
                     stm_data |-> STM_get_all(stm, session_id, now)]
    /\ UNCHANGED <<ltm, nextId, with_vectors, scored, stm, now, last, stm_backend, written, worker, shutdown>>

\* second step: the rest of the call (lines 173-192) on the entries read, with
\* the stores as they are by then
PromoteFinish ==
    /\ promoting.pc = "read"
    /\ \E out \in {PromoteData(promoting.stm_data, ltm, stm, nextId,
                                promoting.session, promoting.user, promoting.conv,
                                promoting.min_importance, now, 0)} :
          /\ ltm' = out.store
          /\ stm' = out.stm
          /\ written' = IF out.stm = stm THEN written
                         ELSE Written_clear(written, promoting.session)
          /\ nextId' = IF out.id # 0 THEN nextId + 1 ELSE nextId
          /\ last' = [Started("promote") EXCEPT
                         !.session = promoting.session, !.user = promoting.user,
                         !.conv = promoting.conv,
                         !.min_importance = promoting.min_importance,
                         !.status = out.status, !.id = out.id,
                         !.calls = out.calls, !.stm_data = promoting.stm_data]
    /\ promoting' = NotPromoting
    /\ UNCHANGED <<with_vectors, scored, now, stm_backend, worker, shutdown>>

Consolidate(user_id, similarity_threshold, fail_at) ==
    \E out \in {consolidate_similar_memories(ltm, nextId, user_id,
                                            similarity_threshold, now, fail_at)} :
        /\ ltm' = out.store
        /\ nextId' = out.next
        /\ last' = [Started("consolidate") EXCEPT
                       !.user = user_id, !.threshold = similarity_threshold,
                       !.fail_at = fail_at, !.status = out.status,
                       !.count = out.count, !.calls = out.calls,
                       !.groups = out.groups]
        /\ UNCHANGED <<with_vectors, scored, stm, now, stm_backend, written, worker, shutdown, promoting>>

Archive(user_id, days_threshold, importance_threshold, fail_at) ==
    \E out \in {archive_old_memories(ltm, nextId, user_id, days_threshold,
                                    importance_threshold, now, fail_at)} :
        /\ ltm' = out.store
        /\ nextId' = out.next
        /\ last' = [Started("archive") EXCEPT
                       !.user = user_id, !.days = days_threshold,
                       !.threshold = importance_threshold,
                       !.fail_at = fail_at, !.status = out.status,
                       !.calls = out.calls, !.deleted_ids = out.deleted_ids,
                       !.summarized_ids = out.summarized_ids,
                       !.deleted = out.deleted, !.summarized = out.summarized]
        /\ UNCHANGED <<with_vectors, scored, stm, now, stm_backend, written, worker, shutdown, promoting>>

SummarizeOld(user_id, days_old, fail_at) ==
    \E out \in {summarize_old_memories(ltm, nextId, user_id, days_old, now, fail_at)} :
        /\ ltm' = out.store
        /\ nextId' = IF out.id # 0 \/ Len(out.store) > Len(ltm)
                     THEN nextId + 1 ELSE nextId
        /\ last' = [Started("summarize_old_memories") EXCEPT
                       !.user = user_id, !.days = days_old,
                       !.fail_at = fail_at, !.status = out.status, !.id = out.id,
                       !.calls = out.calls]
        /\ UNCHANGED <<with_vectors, scored, stm, now, stm_backend, written, worker, shutdown, promoting>>

\* MemoryManager.search_long_term with the default filters and min_score; its one
\* adapter call fails when fail_at = 1
SearchLongTerm(query, user_id, top_k, fail_at) ==
    \E out \in {search_long_term(ltm, query, user_id, top_k, NoFilter,
                                 SEARCH_LONG_TERM_MIN_SCORE)} :
        /\ last' = [Started("search_long_term") EXCEPT
                       !.user = user_id, !.query = query, !.top_k = top_k,
                       !.fail_at = fail_at,
                       !.status = IF fail_at = 1 THEN "raised" ELSE "ok",
                       !.result = IF fail_at = 1 THEN <<>> ELSE out,
                       !.calls = <<"search">>]
        /\ UNCHANGED <<ltm, nextId, with_vectors, scored, stm, now, stm_backend, written, worker, shutdown, promoting>>

\* variant: the exception leaves cleanup_worker and ends the thread
cleanup_worker_except_Propagate(w) ==
    [w EXCEPT !.pc = "dead", !.todo = {}, !.size = 0, !.expired_keys = {},
              !.failed = TRUE]

\* except Exception as e: print(...), and the loop goes on to the next sleep
cleanup_worker_except(w) ==
    [w EXCEPT !.pc = "sleep", !.todo = {}, !.size = 0, !.expired_keys = {},
              !.failed = TRUE]

\* cleanup_worker: time.sleep returns and cleanup_expired is called; the Redis
\* backend's cleanup_expired does nothing, the in-memory one starts its loop over
\* self._store.items()
WorkerWake ==
    /\ worker.pc = "sleep"
    /\ worker' = IF stm_backend = "redis" THEN Asleep
                  ELSE [pc |-> "scan", todo |-> DOMAIN stm,
                        size |-> Cardinality(DOMAIN stm), expired_keys |-> {},
                        failed |-> FALSE]
    /\ UNCHANGED <<ltm, nextId, with_vectors, scored, stm, now, last, stm_backend, written, shutdown, promoting>>

\* one turn of the loop over self._store.items(): a dict whose size changed since
\* the loop began raises RuntimeError; otherwise the expired keys of the next
\* session are deleted and a session left empty is noted in expired_keys
SweepSession ==
    /\ worker.pc = "scan"
    /\ IF Cardinality(DOMAIN stm) # worker.size
       THEN worker' = cleanup_worker_except(worker) /\ UNCHANGED stm
       ELSE IF worker.todo \cap DOMAIN stm = {}
       THEN worker' = [worker EXCEPT !.pc = "delete", !.todo = {}] /\ UNCHANGED stm
       ELSE \E s \in worker.todo \cap DOMAIN stm :
               /\ stm' = ExpiredDeleted(stm, s, now)
               /\ worker' = [worker EXCEPT
                                !.todo = @ \ {s},
                                !.expired_keys =
                                    IF STM_get_all(stm, s, now) = <<>>
                                    THEN @ \cup {s} ELSE @]
    /\ UNCHANGED <<ltm, nextId, with_vectors, scored, now, last, stm_backend, written, shutdown, promoting>>

\* one turn of "for key in expired_keys: del self._store[key]": KeyError when the
\* session is no longer in the store; after the last turn the worker sleeps again
SweepDelete ==
    /\ worker.pc = "delete"
    /\ IF worker.expired_keys = {}
       THEN worker' = Asleep /\ UNCHANGED stm
       ELSE \E s \in worker.expired_keys :
               IF s \notin DOMAIN stm
               THEN worker' = cleanup_worker_except(worker) /\ UNCHANGED stm
               ELSE /\ stm' = STM_clear(stm, s)
                    /\ worker' = [worker EXCEPT !.expired_keys = @ \ {s}]
    /\ UNCHANGED <<ltm, nextId, with_vectors, scored, now, last, stm_backend, written, shutdown, promoting>>

\* the application is done with the engine; MemoryManager has no method to call
\* and cleanup_worker reads no flag
Shutdown ==
    /\ ~shutdown
    /\ shutdown' = TRUE
    /\ UNCHANGED <<ltm, nextId, with_vectors, scored, stm, now, last, stm_backend, written, worker, promoting>>

\* a call of score_importance(text, context), recorded with the size of the
\* long-term store at the time of the call
Score(text, context) ==
    \E value \in {score_importance(text, context)} :
        /\ scored' = scored \cup {[text |-> text, context |-> context,
                                   value |-> value, stored |-> Len(ltm)]}
        /\ last' = Quiet("score_importance")
        /\ UNCHANGED <<ltm, nextId, with_vectors, stm, now, stm_backend, written, worker, shutdown, promoting>>

AdvSearch(query, search_type, filters, top_k) ==
    \E out \in {AdvancedSearch_search(ltm, query, search_type, filters, top_k)} :
        /\ last' = [Started("search") EXCEPT
                       !.query = query, !.search_type = search_type,
                       !.filters = filters, !.top_k = top_k, !.result = out]
        /\ UNCHANGED <<ltm, nextId, with_vectors, scored, stm, now, stm_backend, written, worker, shutdown, promoting>>

\* the merge of _hybrid_search applied to the two result lists held in last
Merge ==
    /\ last.op = "results"
    /\ \E rows \in {HybridRows(last.semantic, last.keyword)} :
          last' = [last EXCEPT !.op = "hybrid_merge", !.merged = rows,
                               !.result = Prefix(rows, last.top_k)]
    /\ UNCHANGED <<ltm, nextId, with_vectors, scored, stm, now, stm_backend, written, worker, shutdown, promoting>>

(***************************************************************************)
(* Specifications.                                                         *)
(***************************************************************************)
\* long-term inserts with deduplication
NextDedup ==
    \E u \in Users, t \in {T_bug, T_Bug, T_ok}, c \in Convs :
        /\ Len(ltm) < MaxDedupLtm
        /\ AddLongTerm(u, t, -1, c, 0)

SpecDedup == Init /\ [][NextDedup]_vars

\* recall over a session's short-term entries and the long-term store
NextRecall ==
    \/ (now < MaxRecallTime /\ Tick)
    \/ \E k \in Keys, v \in {T_Bug, T_ok} : SetShortTerm("s1", k, v)
    \/ \E t \in {T_Bug, T_fix} :
        /\ Len(ltm) < MaxRecallLtm /\ now = 0
        /\ AddLongTerm("u1", t, -1, "", 0)
    \/ \E s \in {"", "s1"}, top_k \in {1, 2} :
        Recall("u1", T_bug, s, "", top_k, 0)

SpecRecall == Init /\ [][NextRecall]_vars

\* promotion of a session's short-term entries
NextPromote ==
    \/ (now < MaxPromoteTime /\ Tick)
    \/ \E v \in {T_bug, T_ok} : SetShortTerm("s1", K_k, v)
    \/ SetShortTerm("s1", K_j, T_ok)
    \/ \E m \in {30, 50}, f \in {0, 2} :
        /\ Len(ltm) < MaxPromoteLtm
        /\ Promote("s1", "u1", "", m, f)

SpecPromote == Init /\ [][NextPromote]_vars

\* consolidation passes of one owner, one after the other
NextConsolidate ==
    \/ \E t \in {T_bug, T_fix, T_fx} :
        /\ Len(ltm) < MaxConsolidateSources
        /\ AddLongTerm("u1", t, -1, "", 0)
    \/ (ltm = <<>> /\ AddLongTerm("u2", T_bug, -1, "", 0))
    \/ \E th \in {50, 95}, f \in {0, 3} :
        /\ Len(ltm) < MaxConsolidateLtm
        /\ Consolidate("u1", th, f)

SpecConsolidate == Init /\ [][NextConsolidate]_vars

\* the operations that replace old entries by summaries or merged entries
NextSummarize ==
    \/ (now < MaxSummarizeTime /\ Tick)
    \/ \E c \in Convs :
        /\ Len(ltm) < MaxSummarizeLtm
        /\ AddLongTerm("u1", T_bug, -1, c, 0)
    \/ \E f \in 0..4 :
        /\ Len(ltm) < MaxSummarizeLtm
        /\ SummarizeOld("u1", 1, f)
    \/ \E th \in {0, 50}, f \in {0, 3} :
        /\ Len(ltm) < MaxSummarizeLtm
        /\ Archive("u1", 1, th, f)
    \/ (Len(ltm) < MaxSummarizeLtm /\ Consolidate("u1", 95, 0))

SpecSummarize == Init /\ [][NextSummarize]_vars

\* every operation that stores or returns an importance; add_long_term is called
\* without an importance (-1), with one in range and with one out of range
NextImportance ==
    \/ (now < MaxImportanceTime /\ Tick)
    \/ \E t \in {T_bug, T_ok}, imp \in {-1, 50, 150} :
        /\ Len(ltm) < MaxImportanceLtm
        /\ AddLongTerm("u1", t, imp, "", 0)
    \/ SetShortTerm("s1", K_k, T_bug)
    \/ (Len(ltm) < MaxImportanceLtm /\ Promote("s1", "u1", "", 30, 0))
    \/ Recall("u1", T_bug, "s1", "", 2, 0)
    \/ (Len(ltm) < MaxImportanceLtm /\ Consolidate("u1", 95, 0))
    \/ (Len(ltm) < MaxImportanceLtm /\ Archive("u1", 1, 50, 0))

SpecImportance == Init /\ [][NextImportance]_vars

\* contexts given to the scorer: none, and a long conversation with an explicit
\* request to remember
ScoreContexts ==
    {NoContext,
     [conversation_length |-> 11, user_explicitly_asked_to_remember |-> TRUE]}

\* calls of the scorer with writes to both stores in between
NextScore ==
    \/ \E t \in {T_ok, T_urgent}, c \in ScoreContexts :
        /\ Cardinality(scored) < MaxScoreCalls
        /\ Score(t, c)
    \/ \E t \in {T_ok, T_urgent} :
        /\ Len(ltm) < MaxScoreLtm
        /\ AddLongTerm("u1", t, -1, "", 0)
    \/ \E v \in {T_ok, T_urgent} : SetShortTerm("s1", K_k, v)

SpecScore == Init /\ [][NextScore]_vars

SearchTypes == {"semantic", "keyword", "hybrid", "metadata"}

\* filter sets given to AdvancedSearch.search: owner only; owner and source;
\* owner and importance bounds; a date range; a metadata equality
SearchFilters ==
    {[NoSearchFilter EXCEPT !.user_id = "u1"],
     [NoSearchFilter EXCEPT !.user_id = "u1", !.source = "short_term"],
     [NoSearchFilter EXCEPT !.user_id = "u1", !.importance_min = 30,
                            !.importance_max = 100],
     [NoSearchFilter EXCEPT !.date_range = <<1, 1>>],
     [NoSearchFilter EXCEPT !.metadata_filters = <<<<"conversation_id", "c1">>>>]}

\* searches in every mode over a store written by two owners
NextSearch ==
    \/ (now < MaxSearchTime /\ Tick)
    \/ \E a \in {<<"u1", T_bug, "">>, <<"u1", T_ok, "c1">>, <<"u2", T_bug, "">>} :
        /\ Len(ltm) < MaxSearchLtm
        /\ AddLongTerm(a[1], a[2], -1, a[3], 0)
    \/ SetShortTerm("s1", K_k, T_bug)
    \/ \E search_type \in SearchTypes, f \in SearchFilters, top_k \in {1, 2} :
        AdvSearch(T_bug, search_type, f, top_k)

SpecSearch == Init /\ [][NextSearch]_vars

\* result lists given to the merge: MemoryEntry values with the texts given
MergeTexts == {T_bug, T_ok, T_fix}

MergeEntry(id, text) ==
    [id |-> id, user_id |-> "u1", text |-> text,
     metadata |-> [EmptyMeta EXCEPT !.importance = 50], key |-> <<>>,
     timestamp |-> 0, source |-> "long_term", importance |-> 50]

ResultList(texts, base) ==
    List([i \in 1..Len(texts) |-> MergeEntry(base + i, texts[i])])

TextLists == UNION {[1..n -> MergeTexts] : n \in 0..MaxMergeLen}

\* the hybrid merge as a function of the two result lists and top_k
InitMerge ==
    /\ ltm = <<>>
    /\ nextId = 1
    /\ with_vectors = FALSE
    /\ stm = <<>>
    /\ now = 0
    /\ scored = {}
    /\ stm_backend = "memory"
    /\ written = <<>>
    /\ worker = Asleep
    /\ shutdown = FALSE
    /\ promoting = NotPromoting
    /\ \E s \in TextLists, k \in TextLists, top_k \in {1, 2} :
          last = [NoLast EXCEPT !.op = "results", !.top_k = top_k,
                                !.semantic = ResultList(s, 0),
                                !.keyword = ResultList(k, 10)]

(***************************************************************************)
(* conversation.py: ConversationMemory.  The clock of a turn is            *)
(* datetime.utcnow() in whole seconds; a clock tick of the model has       *)
(* MaxTurnSeconds seconds.  json.dumps of the turn's dict, read back with  *)
(* json.loads, is the record of its entries.                               *)
(***************************************************************************)
conv_turn_ == <<"c","o","n","v","_","t","u","r","n","_">>

\* f"conv_turn_{int(datetime.utcnow().timestamp())}"
turn_key(sec) == conv_turn_ \o Str(sec)

\* f"User: {user_message}\nAssistant: {assistant_message}"
combined_turn(user_message, assistant_message) ==
    <<"U","s","e","r",":"," ">> \o user_message \o <<"\n">>
    \o <<"A","s","s","i","s","t","a","n","t",":"," ">> \o assistant_message

\* the seconds of the turns held in the store, whatever the session
TurnSeconds(store) ==
    {e.value.timestamp : e \in UNION {Range(store[s]) : s \in DOMAIN store}}

RECURSIVE SortedByTimestamp(_)
\* list.sort(key=lambda x: x["timestamp"]): stable, ascending
SortedByTimestamp(turns) ==
    IF turns = <<>> THEN <<>>
    ELSE LET rest == SortedByTimestamp(Tail(turns))
             before == {i \in 1..Len(rest) : rest[i].timestamp < Head(turns).timestamp}
             n == Cardinality(before)
         IN  SubSeq(rest, 1, n) \o <<Head(turns)>> \o SubSeq(rest, n + 1, Len(rest))

\* the turns of the session's live entries under a conv_turn_ key, sorted
ConversationTurns(store, session_id, t) ==
    LET stm_data == STM_get_all(store, session_id, t)
        turns == SelectSeq2(stm_data,
                     {e \in Range(stm_data) : StartsWith(e.key, conv_turn_)})
    IN  SortedByTimestamp(
            List([i \in 1..Len(turns) |->
                    [timestamp |-> turns[i].value.timestamp,
                     user |-> turns[i].value.user_message,
                     assistant |-> turns[i].value.assistant_message]]))

\* conversation_turns[-last_n_turns:] ; -0 is 0, the whole list
LastTurns(turns, last_n_turns) ==
    IF last_n_turns = 0 \/ last_n_turns >= Len(turns) THEN turns
    ELSE SubSeq(turns, Len(turns) - last_n_turns + 1, Len(turns))

get_conversation_context(store, session_id, last_n_turns, t) ==
    LastTurns(ConversationTurns(store, session_id, t), last_n_turns)

\* ConversationMemory.add_conversation_turn at second sec of the clock: the turn
\* is set in the short-term store, and stored long-term when it scores above 0.2
AddConversationTurn(user_id, session_id, user_message, assistant_message, sec) ==
    /\ sec \in (now * MaxTurnSeconds)..(now * MaxTurnSeconds + MaxTurnSeconds - 1)
    /\ \A s \in TurnSeconds(stm) : s <= sec
    /\ LET conversation_context ==
               [user_message |-> user_message,
                assistant_message |-> assistant_message, timestamp |-> sec]
           text == combined_turn(user_message, assistant_message)
           importance == score_importance(text, NoContext)
       IN  /\ stm' = ShortTermMemory_set(stm, session_id, turn_key(sec),
                                         conversation_context, now)
           /\ written' = Written_set(written, session_id, turn_key(sec),
                                     conversation_context, now)
           /\ \E out \in {IF importance > 20
                           THEN add_long_term(ltm, nextId, user_id, text,
                                    [EmptyMeta EXCEPT !.type = "conversation_turn"],
                                    importance, "", NoContext, now, 0)
                           ELSE [status |-> "ok", id |-> 0, store |-> ltm,
                                 calls |-> <<>>]} :
                 /\ ltm' = out.store
                 /\ nextId' = IF out.id # 0 THEN nextId + 1 ELSE nextId
                 /\ last' = [Started("add_conversation_turn") EXCEPT
                                !.user = user_id, !.session = session_id,
                                !.text = text, !.id = out.id,
                                !.value = conversation_context]
    /\ UNCHANGED <<with_vectors, scored, now, stm_backend, worker, shutdown, promoting>>

GetConversationContext(session_id, last_n_turns) ==
    /\ last' = [Started("get_conversation_context") EXCEPT
                   !.session = session_id, !.top_k = last_n_turns,
                   !.result = get_conversation_context(stm, session_id,
                                                       last_n_turns, now)]
    /\ UNCHANGED <<ltm, nextId, with_vectors, scored, stm, now, stm_backend, written, worker, shutdown, promoting>>

\* memory.ltm.import_json(filepath) on a file holding the entries
ImportJson(entries) ==
    \E out \in {import_json(ltm, nextId, entries, now)} :
        /\ ltm' = out.store
        /\ nextId' = out.next
        /\ last' = [Started("import_json") EXCEPT
                       !.status = out.status, !.calls = out.calls]
        /\ UNCHANGED <<with_vectors, scored, stm, now, stm_backend, written, worker, shutdown, promoting>>

\* memory.stm.cleanup_expired() called by the application itself, no cleanup
\* thread running (enable_cleanup=False)
CleanupExpired ==
    /\ stm_backend = "memory"
    /\ worker.pc = "sleep"
    /\ stm' = cleanup_expired(stm, now)
    /\ last' = Started("cleanup_expired")
    /\ UNCHANGED <<ltm, nextId, with_vectors, scored, now, stm_backend, written, worker, shutdown, promoting>>

NextMerge == Merge

SpecMerge == InitMerge /\ [][NextMerge]_vars

\* the writes made in the short-term store runs: <<session, key, value>>
StmWrites ==
    {<<"s1", K_k, T_ok>>, <<"s1", K_k, T_bug>>, <<"s1", K_j, T_fix>>,
     <<"s2", K_k, T_fx>>}

StmSlots == {<<w[1], w[2]>> : w \in StmWrites}

\* the in-memory short-term store with the cleanup thread running
NextStm ==
    \/ (now < MaxStmTime /\ Tick)
    \/ \E w \in StmWrites : SetShortTerm(w[1], w[2], w[3])
    \/ \E p \in StmSlots : GetShortTerm(p[1], p[2])
    \/ \E s \in {"s1", "s2"} : GetAllShortTerm(s)
    \/ \E s \in {"s1", "s2"} : ClearShortTerm(s)
    \/ WorkerWake
    \/ SweepSession
    \/ SweepDelete

SpecStm == Init /\ [][NextStm]_vars

\* the in-memory short-term store swept by the application, no cleanup thread
NextCleanup ==
    \/ (now < MaxCleanupTime /\ Tick)
    \/ \E w \in StmWrites : SetShortTerm(w[1], w[2], w[3])
    \/ \E p \in StmSlots : GetShortTerm(p[1], p[2])
    \/ \E s \in {"s1", "s2"} : GetAllShortTerm(s)
    \/ \E s \in {"s1", "s2"} : ClearShortTerm(s)
    \/ CleanupExpired

SpecCleanup == Init /\ [][NextCleanup]_vars

\* conversation turns of two sessions; a turn with "bug" is stored long-term
NextConversation ==
    \/ (now < MaxConversationTime /\ Tick)
    \/ \E u \in {"u1"}, s \in {"s1", "s2"}, um \in {T_ok, T_bug},
          sec \in 0..((MaxConversationTime + 1) * MaxTurnSeconds - 1) :
            /\ Len(ltm) < MaxConversationLtm
            /\ AddConversationTurn(u, s, um, T_ok, sec)
    \/ \E s \in {"s1", "s2"}, n \in 0..2 : GetConversationContext(s, n)

SpecConversation == Init /\ [][NextConversation]_vars

\* the files imported: entries as export_json writes them
ImportFiles ==
    {<<[user_id |-> "u1", text |-> T_bug, metadata |-> EmptyMeta]>>,
     <<[user_id |-> "u1", text |-> T_bug, metadata |-> EmptyMeta],
       [user_id |-> "u1", text |-> T_fix, metadata |-> EmptyMeta]>>}

\* every operation that stores a long-term entry
NextInsert ==
    \/ (now < MaxInsertTime /\ Tick)
    \/ \E t \in {T_bug, T_fix} :
        /\ Len(ltm) < MaxInsertLtm
        /\ AddLongTerm("u1", t, -1, "", 0)
    \/ SetShortTerm("s1", K_k, T_bug)
    \/ (Len(ltm) < MaxInsertLtm /\ Promote("s1", "u1", "", 30, 0))
    \/ (Len(ltm) < MaxInsertLtm /\ Archive("u1", 1, 50, 0))
    \/ (Len(ltm) < MaxInsertLtm /\ SummarizeOld("u1", 1, 0))
    \/ (Len(ltm) < MaxInsertLtm /\ Consolidate("u1", 50, 0))
    \/ \E file \in ImportFiles :
        /\ Len(ltm) < MaxInsertLtm
        /\ ImportJson(file)

SpecInsert == Init /\ [][NextInsert]_vars

\* a text of n characters that starts with "bug"
Padded(n) == T_bug \o List([i \in 1..(n - 3) |-> "x"])

\* texts for the score formula: no keyword; two high keywords and a "?"; a
\* question word in upper case and a medium keyword; one keyword twice; five
\* keywords; texts of 200, 201 and 501 characters
FormulaTexts ==
    {T_ok, T_urgent,
     <<"W","h","a","t"," ","p","l","a","n">>,
     <<"b","u","g"," ","b","u","g">>,
     <<"u","r","g","e","n","t"," ","a","s","a","p"," ","f","a","i","l"," ",
       "b","u","g"," ","n","o","t","e">>,
     Padded(200), Padded(201), Padded(501)}

FormulaContexts ==
    {[conversation_length |-> n, user_explicitly_asked_to_remember |-> r] :
        n \in {10, 11}, r \in BOOLEAN}

\* calls of the scorer over texts and contexts on both sides of each test
NextFormula ==
    \E t \in FormulaTexts, c \in FormulaContexts :
        /\ Cardinality(scored) < MaxFormulaCalls
        /\ Score(t, c)

SpecFormula == Init /\ [][NextFormula]_vars

\* a session filled key after key, "bug" under the first key, and promoted with
\* up to MaxManyKeys entries, some of them expired, into an empty long-term store
NextMany ==
    \/ (now < MaxManyTime /\ Tick)
    \/ \E n \in {Len(SessionData(stm, "s1"))} :
        /\ n < MaxManyKeys
        /\ SetShortTerm("s1", K_k \o Str(n + 1), IF n = 0 THEN T_bug ELSE T_ok)
    \/ \E min_importance \in {30, 40} :
        /\ ltm = <<>>
        /\ Promote("s1", "u1", "", min_importance, 0)

SpecMany == Init /\ [][NextMany]_vars

\* the writes made in the Redis backend runs: one session id is the start of the
\* other followed by a colon, and one key has a colon in it
RedisWrites ==
    {<<"s1", K_k, T_ok>>, <<"s1", K_k, T_bug>>, <<"s1", K_xk, T_fix>>,
     <<"s1:x", K_k, T_fx>>}

RedisSlots == {<<w[1], w[2]>> : w \in RedisWrites}

InitRedis ==
    /\ ltm = <<>>
    /\ nextId = 1
    /\ with_vectors = FALSE
    /\ stm = <<>>
    /\ now = 0
    /\ last = NoLast
    /\ scored = {}
    /\ stm_backend = "redis"
    /\ written = <<>>
    /\ worker = Asleep
    /\ shutdown = FALSE
    /\ promoting = NotPromoting

\* the short-term store on the Redis backend
NextRedis ==
    \/ (now < MaxRedisTime /\ Tick)
    \/ \E w \in RedisWrites : SetShortTerm(w[1], w[2], w[3])
    \/ \E p \in RedisSlots : GetShortTerm(p[1], p[2])
    \/ \E s \in {"s1", "s1:x"} : GetAllShortTerm(s)
    \/ \E s \in {"s1", "s1:x"} : ClearShortTerm(s)
    \/ WorkerWake

SpecRedis == InitRedis /\ [][NextRedis]_vars

\* the cleanup thread next to calls that add and remove sessions, and the
\* application asking for shutdown; the thread's turn comes again and again
NextSweep ==
    \/ (now < MaxSweepTime /\ Tick)
    \/ \E s \in {"s1", "s2"} : SetShortTerm(s, K_k, T_ok)
    \/ ClearShortTerm("s1")
    \/ WorkerWake
    \/ SweepSession
    \/ SweepDelete
    \/ Shutdown

SpecSweep ==
    Init /\ [][NextSweep]_vars
         /\ WF_vars(WorkerWake) /\ WF_vars(SweepSession) /\ WF_vars(SweepDelete)

\* the four operations with an adapter call that fails: fail_at numbers the
\* adapter call of the operation that raises (0: none)
NextFail ==
    \/ \E t \in {T_bug, T_ok}, f \in 0..2 :
        /\ Len(ltm) < MaxFailLtm
        /\ AddLongTerm("u1", t, -1, "", f)
    \/ \E f \in {0, 1} : SearchLongTerm(T_bug, "u1", 2, f)
    \/ SetShortTerm("s1", K_k, T_bug)
    \/ \E s \in {"", "s1"}, f \in {0, 1} : Recall("u1", T_bug, s, "", 1, f)
    \/ \E f \in 0..2 :
        /\ Len(ltm) < MaxFailLtm
        /\ Promote("s1", "u1", "", 30, f)

SpecFail == Init /\ [][NextFail]_vars

\* a promotion of session s1 with calls of set_short_term from other threads
NextRace ==
    \/ (now < MaxRaceTime /\ Tick)
    \/ \E v \in {T_bug, T_ok} : SetShortTerm("s1", K_k, v)
    \/ SetShortTerm("s1", K_j, T_ok)
    \/ (Len(ltm) < MaxRaceLtm /\ PromoteRead("s1", "u1", "", 30))
    \/ PromoteFinish

SpecRace == Init /\ [][NextRace]_vars

\* searches and recalls by two owners, with and without a conversation, over a
\* store written by both
NextScope ==
    \/ \E u \in Users, t \in {T_bug, T_fix}, c \in Convs :
        /\ Len(ltm) < MaxScopeLtm
        /\ AddLongTerm(u, t, -1, c, 0)
    \/ SetShortTerm("s1", K_k, T_ok)
    \/ \E u \in Users, top_k \in {1, 2} : SearchLongTerm(T_bug, u, top_k, 0)
    \/ \E u \in Users, s \in {"", "s1"}, c \in Convs :
        Recall(u, T_bug, s, c, 2, 0)

SpecScope == Init /\ [][NextScope]_vars

(***************************************************************************)
(* C1.  Calling the long-term insert twice in a row with the same owner,   *)
(* text and conversation: the second call returns no id and stores         *)
(* nothing, so one entry is stored for the pair of calls.                  *)
(***************************************************************************)
SameCallTwice ==
    /\ last.op = "add_long_term" /\ last.prev.op = "add_long_term"
    /\ last.user = last.prev.user /\ last.text = last.prev.text
    /\ last.conv = last.prev.conv
    /\ last.status = "ok" /\ last.prev.status = "ok"

C1_DedupIdempotent ==
    SameCallTwice => (last.id = 0 /\ ltm = last.pre_ltm)

(***************************************************************************)
(* C2.  add_entry returns no id and leaves the store unchanged exactly     *)
(* when one of the at most 3 entries returned by the scoped search has     *)
(* similarity >= the deduplication threshold to the candidate; otherwise   *)
(* it inserts exactly one new entry and returns its id.                    *)
(***************************************************************************)
ScopedTop3 ==
    Backend_search(last.pre_ltm, last.text, 3,
                   [user_id |-> last.user, conversation_id |-> last.conv],
                   MIN_SEARCH_SCORE)

SomeTop3Similar ==
    \E k \in 1..Len(ScopedTop3) :
        CosAtLeast(last.text, ScopedTop3[k].text, DEDUPLICATION_THRESHOLD)

C2_RejectIffSimilar ==
    (last.op = "add_long_term" /\ last.status = "ok") =>
        IF SomeTop3Similar
        THEN last.id = 0 /\ ltm = last.pre_ltm
        ELSE /\ last.id = last.pre_next
             /\ Len(ltm) = Len(last.pre_ltm) + 1
             /\ SubSeq(ltm, 1, Len(last.pre_ltm)) = last.pre_ltm
             /\ ltm[Len(ltm)].id = last.id
             /\ ltm[Len(ltm)].text = last.text
             /\ ltm[Len(ltm)].user_id = last.user

(***************************************************************************)
(* C3.  recall with a session id whose live short-term matches number at   *)
(* least top_k returns top_k of those matches and makes no long-term       *)
(* search call.                                                            *)
(***************************************************************************)
LiveMatches ==
    LET data == IF last.session \in DOMAIN last.pre_stm
                THEN last.pre_stm[last.session] ELSE <<>>
    IN  {e \in Range(data) :
            /\ now - e.timestamp <= ttl
            /\ Contains(Lower(e.value), Lower(last.query))}

ShortCircuitCase ==
    /\ last.op = "recall" /\ last.session # ""
    /\ Cardinality(LiveMatches) >= last.top_k

C3_RecallShortCircuit ==
    ShortCircuitCase =>
        /\ last.status = "ok"
        /\ last.calls = <<>>
        /\ Len(last.result) = last.top_k
        /\ \A k \in 1..Len(last.result) :
              /\ last.result[k].source = "short_term"
              /\ \E e \in LiveMatches :
                    e.value = last.result[k].text /\ e.key = last.result[k].key
        /\ \A k1, k2 \in 1..Len(last.result) :
              last.result[k1].key = last.result[k2].key => k1 = k2

C3_Witness ==
    /\ ShortCircuitCase
    /\ last.top_k = 2
    /\ Len(last.pre_ltm) > 0
    /\ last.result[1].text = T_Bug

(***************************************************************************)
(* C4.  When recall does not short-circuit, its result is the short-term   *)
(* matches, then the long-term search results in the order returned        *)
(* without those whose text equals the text of a short-term match, the     *)
(* whole cut to at most top_k entries.                                     *)
(***************************************************************************)
C4_Stm == StmMatches(last.pre_stm, last.user, last.query, last.session, now)

C4_Ltm ==
    search_long_term(last.pre_ltm, last.query, last.user, last.top_k,
                     [NoFilter EXCEPT !.conversation_id = last.conv],
                     SEARCH_LONG_TERM_MIN_SCORE)

\* positions of the long-term results that no short-term match duplicates
C4_Kept ==
    {i \in 1..Len(C4_Ltm) :
        \A k \in 1..Len(C4_Stm) : C4_Stm[k].text # C4_Ltm[i].text}

NoShortCircuitCase ==
    /\ last.op = "recall" /\ last.status = "ok"
    /\ ~ShortCircuitCase

C4_RecallMerge ==
    NoShortCircuitCase =>
        /\ Len(last.result) = Min(last.top_k, Len(C4_Stm) + Cardinality(C4_Kept))
        /\ \A k \in 1..Len(last.result) :
              IF k <= Len(C4_Stm)
              THEN last.result[k] = C4_Stm[k]
              ELSE \E i \in C4_Kept :
                      /\ Cardinality({j \in C4_Kept : j < i}) = k - Len(C4_Stm) - 1
                      /\ last.result[k] = C4_Ltm[i]

\* a short-term match, a long-term result duplicating it and one that is kept
C4_Witness ==
    /\ NoShortCircuitCase
    /\ Len(C4_Stm) = 1 /\ Len(C4_Ltm) = 2
    /\ C4_Ltm[1].text = C4_Stm[1].text
    /\ Len(last.result) = 2
    /\ last.result[2].text = T_fix

(***************************************************************************)
(* C5.  For a session with at least one live short-term entry whose        *)
(* combined text scores >= min_importance, promote_stm_to_ltm returns a    *)
(* new long-term id, the long-term store then holds an entry with that id  *)
(* tagged source=stm_promotion, and the session's short-term entries are   *)
(* empty afterwards.                                                       *)
(***************************************************************************)
PromoteLive == STM_get_all(last.pre_stm, last.session, now)

PromoteCase ==
    /\ last.op = "promote" /\ last.status = "ok"
    /\ PromoteLive # <<>>
    /\ PromoteScore(PromoteLive) >= last.min_importance

PromotedStored ==
    /\ last.id # 0
    /\ \A i \in 1..Len(last.pre_ltm) : last.pre_ltm[i].id # last.id
    /\ Len(ltm) = Len(last.pre_ltm) + 1
    /\ \E i \in 1..Len(ltm) :
          /\ ltm[i].id = last.id
          /\ ltm[i].metadata.source = "stm_promotion"
          /\ ltm[i].text = CombinedText(PromoteLive)
          /\ ltm[i].user_id = last.user

PromoteDuplicateInScope ==
    \E i \in 1..Len(last.pre_ltm) :
        /\ last.pre_ltm[i].user_id = last.user
        /\ last.conv # "" => last.pre_ltm[i].metadata.conversation_id = last.conv
        /\ CosAtLeast(CombinedText(PromoteLive), last.pre_ltm[i].text,
                      DEDUPLICATION_THRESHOLD)

NoPromoteCase ==
    /\ last.op = "promote"
    /\ \/ PromoteLive = <<>>
       \/ PromoteScore(PromoteLive) < last.min_importance

C6_PromoteNoOp ==
    NoPromoteCase =>
        /\ last.status = "ok" /\ last.id = 0
        /\ last.calls = <<>>
        /\ stm = last.pre_stm
        /\ ltm = last.pre_ltm

\* live entries that score below the minimum, with a non-empty long-term store
C6_Witness ==
    /\ NoPromoteCase
    /\ PromoteLive # <<>>
    /\ Len(last.pre_ltm) > 0
    /\ "s1" \in DOMAIN stm

(***************************************************************************)
(* C7.  One consolidation pass puts no id in two groups: the groups it     *)
(* forms are pairwise disjoint, and after a pass that started from a store *)
(* without consolidated entries every source id is in consolidated_from of *)
(* at most one stored entry.                                               *)
(***************************************************************************)
\* the stored entries whose consolidated_from lists the id
ConsolidatedFrom(store, id) ==
    {i \in 1..Len(store) :
        \E k \in 1..Len(store[i].metadata.consolidated_from) :
            store[i].metadata.consolidated_from[k] = id}

SourceIds(store) ==
    UNION {Range(store[i].metadata.consolidated_from) : i \in 1..Len(store)}

FirstPass ==
    /\ last.op = "consolidate"
    /\ SourceIds(last.pre_ltm) = {}

C7_OnePassPartition ==
    /\ last.op = "consolidate" =>
          \A g, h \in 1..Len(last.groups) :
              g # h => Range(last.groups[g]) \cap Range(last.groups[h]) = {}
    /\ FirstPass =>
          /\ \A id \in SourceIds(ltm) : Cardinality(ConsolidatedFrom(ltm, id)) <= 1
          /\ SourceIds(ltm) = UNION {Range(last.groups[g]) : g \in 1..Len(last.groups)}

\* a first pass that forms two groups
C7_Witness ==
    /\ FirstPass /\ last.status = "ok"
    /\ Len(last.groups) = 2
    /\ Len(ltm) = Len(last.pre_ltm) + 2

(***************************************************************************)
(* C8.  With the passes of one owner run one after the other, after any    *)
(* number of passes every source id is in consolidated_from of at most one *)
(* stored entry.                                                           *)
(***************************************************************************)
C8_SerializedPartition ==
    \A id \in SourceIds(ltm) : Cardinality(ConsolidatedFrom(ltm, id)) <= 1

(***************************************************************************)
(* C9.  After consolidate_similar_memories returns, no entry whose id was  *)
(* placed in a group remains in the long-term store.                       *)
(***************************************************************************)
C9_GroupedSourcesDeleted ==
    (last.op = "consolidate" /\ last.status = "ok") =>
        \A g \in 1..Len(last.groups) :
            \A id \in Range(last.groups[g]) :
                \A i \in 1..Len(ltm) : ltm[i].id # id

(***************************************************************************)
(* C10.  In archive, consolidation and summarize_old_memories a source     *)
(* entry is deleted only if its replacement was stored: every entry the    *)
(* operation removed is listed as a source by a stored summary or          *)
(* consolidated entry.                                                     *)
(***************************************************************************)
ReplacingOp == last.op \in {"archive", "consolidate", "summarize_old_memories"}

StoredIds(store) == {store[i].id : i \in 1..Len(store)}

\* the stored entry is a summary or a merged entry made from the entry with this id
ReplacementOf(entry, id) ==
    \/ id \in Range(entry.metadata.source_entries)
    \/ id \in Range(entry.metadata.consolidated_from)
    \/ entry.metadata.is_summary /\ entry.metadata.original_id = id

CountedIds ==
    IF last.op = "consolidate"
    THEN UNION {Range(last.groups[g]) : g \in 1..Len(last.groups)}
    ELSE Range(last.deleted_ids) \cup Range(last.summarized_ids)

C11_CountedOnlyIfPruned ==
    (last.op \in {"archive", "consolidate"} /\ last.status = "ok") =>
        /\ last.op = "consolidate" => last.count = Cardinality(CountedIds)
        /\ last.op = "archive" =>
              last.deleted + last.summarized = Cardinality(CountedIds)
        /\ \A id \in CountedIds : id \notin StoredIds(ltm)

(***************************************************************************)
(* C12.  In archive_old_memories and consolidate_similar_memories a        *)
(* failure of a delete, summarize or insert made for one entry (any        *)
(* adapter call after the first, which lists the entries) does not abort   *)
(* the batch: the operation returns its counts instead of raising.         *)
(***************************************************************************)
C12_BatchContinues ==
    (last.op \in {"archive", "consolidate"} /\ last.fail_at > 1) =>
        last.status = "ok"

(***************************************************************************)
(* C13.  archive_old_memories touches exactly the owner's entries older    *)
(* than the age threshold: each such entry with importance below the       *)
(* importance threshold is deleted, each other such entry is summarized,   *)
(* no entry is both, deleted + summarized does not exceed the number of    *)
(* old entries, and the other entries are left unchanged.                  *)
(***************************************************************************)
ArchiveOld ==
    {i \in 1..Len(last.pre_ltm) :
        /\ last.pre_ltm[i].user_id = last.user
        /\ created_at(last.pre_ltm[i]) < now - last.days}

C13_ArchiveExactlyOld ==
    (last.op = "archive" /\ last.status = "ok" /\ last.fail_at = 0) =>
        /\ \A i \in ArchiveOld :
              IF last.pre_ltm[i].metadata.importance < last.threshold
              THEN /\ last.pre_ltm[i].id \notin StoredIds(ltm)
                   /\ last.pre_ltm[i].id \in Range(last.deleted_ids)
              ELSE /\ last.pre_ltm[i].id \in Range(last.summarized_ids)
                   /\ \E k \in 1..Len(ltm) :
                         /\ ltm[k].metadata.is_summary
                         /\ ltm[k].metadata.original_id = last.pre_ltm[i].id
        /\ Range(last.deleted_ids) \cap Range(last.summarized_ids) = {}
        /\ last.deleted + last.summarized <= Cardinality(ArchiveOld)
        /\ \A i \in (1..Len(last.pre_ltm)) \ ArchiveOld :
              \E k \in 1..Len(ltm) : ltm[k] = last.pre_ltm[i]


(***************************************************************************)
(* C14.  After any sequence of add_long_term (with or without an explicit  *)
(* importance), promotion, archive and consolidation, the importance       *)
(* stored with every long-term entry and the importance of every entry     *)
(* returned by a search or recall lies in [0,1] (0..100 hundredths).       *)
(***************************************************************************)
C14_ImportanceInRange ==
    /\ \A i \in 1..Len(ltm) : ltm[i].metadata.importance \in 0..100
    /\ last.op = "recall" =>
          \A k \in 1..Len(last.result) : last.result[k].importance \in 0..100


(***************************************************************************)
(* C15.  For all (text, context) score_importance returns a value in       *)
(* [0,1], and two calls with the same (text, context) return the same      *)
(* value whatever was written to the stores in between.                    *)
(***************************************************************************)
C15_ScorerPure ==
    /\ \A a \in scored : a.value \in 0..100
    /\ \A a, b \in scored :
          (a.text = b.text /\ a.context = b.context) => a.value = b.value

\* the same input scored before and after a long-term insert, at the cap of 1.0,
\* together with an input that scores 0
C15_Witness ==
    /\ \E a, b \in scored :
          /\ a.text = b.text /\ a.context = b.context
          /\ a.stored # b.stored
          /\ a.value = 100
    /\ \E a \in scored : a.value = 0


(***************************************************************************)
(* C16.  In the hybrid merge, a text present in both the semantic and the  *)
(* keyword result list has exactly one row in the merged list, carrying    *)
(* the sum of its semantic and keyword weighted scores; and neither the    *)
(* merged list nor the returned list has two rows with the same text.      *)
(***************************************************************************)
\* the 1-based positions of the text in the list; {0} when it is absent
PositionsOf(results, text) ==
    IF \E i \in 1..Len(results) : results[i].text = text
    THEN {i \in 1..Len(results) : results[i].text = text}
    ELSE {0}

\* score / den = 0.7 * (Ns - (i-1)) / Ns + 0.3 * (Nk - (j-1)) / Nk, a part being
\* 0 when its position is 0
WeightedAt(row, Ns, i, Nk, j) ==
    row.score * 10 * (IF Ns = 0 THEN 1 ELSE Ns) * (IF Nk = 0 THEN 1 ELSE Nk)
    = row.den * ( (IF i > 0 THEN 7 * (Ns - (i - 1)) ELSE 0) * (IF Nk = 0 THEN 1 ELSE Nk)
                + (IF j > 0 THEN 3 * (Nk - (j - 1)) ELSE 0) * (IF Ns = 0 THEN 1 ELSE Ns))

InBoth(text) ==
    /\ \E i \in 1..Len(last.semantic) : last.semantic[i].text = text
    /\ \E j \in 1..Len(last.keyword) : last.keyword[j].text = text

RowsOf(rows, text) == {p \in 1..Len(rows) : rows[p].entry.text = text}

C16_HybridMergeIdentity ==
    last.op = "hybrid_merge" =>
        /\ \A text \in MergeTexts :
              InBoth(text) =>
                  /\ Cardinality(RowsOf(last.merged, text)) = 1
                  /\ \A p \in RowsOf(last.merged, text) :
                        \E i \in PositionsOf(last.semantic, text),
                           j \in PositionsOf(last.keyword, text) :
                            /\ last.merged[p].semantic > 0
                            /\ last.merged[p].keyword > 0
                            /\ WeightedAt(last.merged[p], Len(last.semantic), i,
                                          Len(last.keyword), j)
        /\ \A text \in MergeTexts :
              /\ Cardinality(RowsOf(last.merged, text)) <= 1
              /\ Cardinality(RowsOf(last.result, text)) <= 1

\* a text found by both searches, next to a text found by one only, where the
\* semantic list holds some text twice
C16_Witness ==
    /\ last.op = "hybrid_merge"
    /\ \E text \in MergeTexts : InBoth(text)
    /\ Len(last.merged) >= 2
    /\ \E i, k \in 1..Len(last.semantic) :
          i # k /\ last.semantic[i].text = last.semantic[k].text

(***************************************************************************)
(* C17.  The combined score of a text is 0.7 * (Ns - i) / Ns for its       *)
(* position i in the semantic list of length Ns (0 if absent) plus         *)
(* 0.3 * (Nk - j) / Nk for its position j in the keyword list of length Nk *)
(* (0 if absent); for two disjoint single-hit lists the scores are exactly *)
(* 0.7 and 0.3.                                                            *)
(***************************************************************************)
DisjointSingleHits ==
    /\ last.op = "hybrid_merge"
    /\ Len(last.semantic) = 1 /\ Len(last.keyword) = 1
    /\ last.semantic[1].text # last.keyword[1].text

C17_HybridScore ==
    last.op = "hybrid_merge" =>
        /\ \A p \in 1..Len(last.merged) :
              \E i \in PositionsOf(last.semantic, last.merged[p].entry.text),
                 j \in PositionsOf(last.keyword, last.merged[p].entry.text) :
                  WeightedAt(last.merged[p], Len(last.semantic), i,
                             Len(last.keyword), j)
        /\ DisjointSingleHits =>
              /\ Len(last.merged) = 2
              /\ last.merged[1].entry = last.semantic[1]
              /\ last.merged[1].score * 10 = 7 * last.merged[1].den
              /\ last.merged[2].entry = last.keyword[1]
              /\ last.merged[2].score * 10 = 3 * last.merged[2].den

\* the two single-hit lists, both rows returned
C17_Witness ==
    /\ DisjointSingleHits
    /\ Len(last.result) = 2

(***************************************************************************)
(* C18.  The list returned by hybrid search is sorted by combined score,   *)
(* descending; rows with equal score keep their first-seen order (semantic *)
(* results before keyword-only results, each in list order); and it has at *)
(* most top_k rows.                                                        *)
(***************************************************************************)
\* the place of the row's text in the semantic list followed by the keyword list
FirstSeenAt(text) ==
    IF FirstIn(last.semantic, text) > 0 THEN FirstIn(last.semantic, text)
    ELSE Len(last.semantic) + FirstIn(last.keyword, text)

Satisfies(entry, f) ==
    /\ f.user_id # "" => entry.user_id = f.user_id
    /\ f.date_range # <<>> =>
          f.date_range[1] <= entry.timestamp /\ entry.timestamp <= f.date_range[2]
    /\ f.importance_min # -1 => entry.importance >= f.importance_min
    /\ f.importance_max # -1 => entry.importance <= f.importance_max
    /\ \A k \in 1..Len(f.metadata_filters) :
          entry.metadata[f.metadata_filters[k][1]] = f.metadata_filters[k][2]
    /\ f.source # "" => entry.source = f.source

C19_FiltersAnded ==
    last.op = "search" =>
        \A k \in 1..Len(last.result) : Satisfies(last.result[k], last.filters)

(***************************************************************************)
(* C20.  Keyword-mode search returns up to top_k of the stored candidates  *)
(* from the sources the filter allows, ordered by the fraction of query    *)
(* tokens present in the text, descending; a stored entry whose text       *)
(* contains a query token is a candidate, so a candidate is missing from   *)
(* the result only when the result already has top_k entries.              *)
(***************************************************************************)
HasQueryToken(text) ==
    \E k \in 1..Len(Words(last.query)) :
        \E w \in Range(Words(text)) : Contains(w, Words(last.query)[k])

\* the texts of the stored candidates the filter allows
KeywordCandidates ==
    {ltm[i].text : i \in {i \in 1..Len(ltm) :
        /\ last.filters.source # "short_term"
        /\ last.filters.user_id # "" => ltm[i].user_id = last.filters.user_id
        /\ HasQueryToken(ltm[i].text)}}
    \cup
    {e.value : e \in {e \in UNION {Range(STM_get_all(stm, s, now)) : s \in DOMAIN stm} :
        /\ last.filters.source # "long_term"
        /\ HasQueryToken(e.value)}}

C20_KeywordCandidates ==
    (last.op = "search" /\ last.search_type = "keyword") =>
        /\ Len(last.result) <= last.top_k
        /\ \A k \in 1..Len(last.result) : last.result[k].text \in KeywordCandidates
        /\ \A p, q \in 1..Len(last.result) :
              p < q => keyword_matches(last.result[p], Words(last.query))
                       >= keyword_matches(last.result[q], Words(last.query))
        /\ Len(last.result) < last.top_k =>
              \A text \in KeywordCandidates :
                  \E k \in 1..Len(last.result) : last.result[k].text = text

(***************************************************************************)
(* C21.  search_long_term and recall called with owner u return no         *)
(* long-term entry stored for another owner, and recall called with        *)
(* conversation c returns only long-term entries tagged with c.  Each      *)
(* returned long-term entry is looked up by id in the store as it was      *)
(* when the call was made.                                                 *)
(***************************************************************************)
StoredAs(store, id) == {i \in 1..Len(store) : store[i].id = id}

ScopedCall == last.op \in {"search_long_term", "recall"} /\ last.status = "ok"

C21_OwnerScoped ==
    ScopedCall =>
        \A k \in 1..Len(last.result) :
            last.result[k].source = "long_term" =>
                \E i \in StoredAs(last.pre_ltm, last.result[k].id) :
                    /\ last.pre_ltm[i].user_id = last.user
                    /\ last.result[k].user_id = last.user
                    /\ (last.op = "recall" /\ last.conv # "") =>
                           last.pre_ltm[i].metadata.conversation_id = last.conv

\* a recall in conversation c1 that returns a long-term entry while the store
\* also holds an entry of another owner and an entry outside the conversation
C21_Witness ==
    /\ last.op = "recall" /\ last.status = "ok" /\ last.conv = "c1"
    /\ \E k \in 1..Len(last.result) : last.result[k].source = "long_term"
    /\ \E i \in 1..Len(last.pre_ltm) :
          \/ last.pre_ltm[i].user_id # last.user
          \/ last.pre_ltm[i].metadata.conversation_id # "c1"

(***************************************************************************)
(* C22.  After set(session, key, v), and until the entry expires, a later  *)
(* set on the same (session, key) or a clear(session), get(session, key)   *)
(* returns v: get returns the value most recently set.  written holds, per *)
(* (session, key), the value last set and its time since the last clear.   *)
(***************************************************************************)
\* the (session, key) pairs set, not cleared since and not expired at time t
AgeExceedsTtl(at, t) == t - at > ttl

LiveWritten(t) ==
    {p \in DOMAIN written : ~AgeExceedsTtl(written[p].at, t)}

C22_GetReturnsLastSet ==
    (last.op = "get_short_term" /\ <<last.session, last.key>> \in LiveWritten(now))
        => last.value = written[<<last.session, last.key>>].value

(***************************************************************************)
(* C23.  get_all(session) returns exactly the key-to-value map of the      *)
(* session's entries that were set, not cleared and not expired, under the *)
(* keys as they were given to set, on the in-memory and on the Redis       *)
(* backend.  An entry is expired on the in-memory backend once its age is  *)
(* above the time to live, on the Redis backend once it has reached it.    *)
(***************************************************************************)
ExpiredAt(at, t) ==
    IF stm_backend = "redis" THEN t - at >= ttl ELSE AgeExceedsTtl(at, t)

\* the map of the session's entries set, not cleared and not expired
ExpectedMap(session_id, t) ==
    {<<p[2], written[p].value>> :
        p \in {q \in DOMAIN written :
                  q[1] = session_id /\ ~ExpiredAt(written[q].at, t)}}

C23_GetAllExact ==
    last.op = "get_all_short_term" => last.map = ExpectedMap(last.session, now)

(***************************************************************************)
(* C24.  get on a key that was never set, was cleared, or whose age is     *)
(* above the time to live returns the empty value and does not raise,      *)
(* whether or not a sweep has removed the entry from the store; get_all    *)
(* includes no entry whose age is above the time to live.                  *)
(***************************************************************************)
AbsentCase ==
    /\ last.op = "get_short_term"
    /\ <<last.session, last.key>> \notin LiveWritten(now)

C24_AbsentIsEmpty ==
    /\ AbsentCase => (last.value = <<>> /\ last.status = "ok")
    /\ last.op = "get_all_short_term" =>
          \A e \in last.map :
              /\ <<last.session, e[1]>> \in LiveWritten(now)
              /\ e[2] = written[<<last.session, e[1]>>].value

\* a get of an entry that has expired and is still in the session's dict
C24_Witness ==
    /\ AbsentCase
    /\ <<last.session, last.key>> \in DOMAIN written
    /\ \E e \in Range(SessionData(last.pre_stm, last.session)) : e.key = last.key

(***************************************************************************)
(* C25.  clear(session) removes every entry of the session: afterwards get *)
(* returns the empty value for each of its keys and get_all an empty map;  *)
(* and it leaves the entries of every other session as they were: get and  *)
(* get_all on another session return what they returned before the clear.  *)
(***************************************************************************)
SlotsUsed == StmSlots \cup RedisSlots

C25_ClearOnlySession ==
    last.op = "clear_short_term" =>
        /\ \A p \in SlotsUsed :
              IF p[1] = last.session
              THEN ShortTermMemory_get(stm, p[1], p[2], now) = <<>>
              ELSE ShortTermMemory_get(stm, p[1], p[2], now)
                     = ShortTermMemory_get(last.pre_stm, p[1], p[2], now)
        /\ \A s \in {p[1] : p \in SlotsUsed} :
              IF s = last.session
              THEN ShortTermMemory_get_all(stm, s, now) = {{}}
              ELSE ShortTermMemory_get_all(stm, s, now)
                     = ShortTermMemory_get_all(last.pre_stm, s, now)

(***************************************************************************)
(* C26.  An exception raised by a sweep (cleanup_expired) is caught inside *)
(* the worker: the thread does not end, and after a sweep that raised, a   *)
(* later sweep starts.                                                     *)
(***************************************************************************)
C26_SweepErrorContained ==
    /\ [](worker.pc # "dead")
    /\ (worker.failed ~> worker.pc = "scan")

\* a sweep has just raised: the dict changed size under its loop, or the session
\* it was about to delete is gone
C26_Witness == worker.failed /\ worker.pc = "sleep"

(***************************************************************************)
(* C27.  The sweep task can be cancelled: once shutdown has been asked     *)
(* for, the worker stops and no sweep of the short-term store starts.      *)
(***************************************************************************)
C27_NoSweepAfterShutdown ==
    [][shutdown => (worker'.pc = "scan" => worker.pc = "scan")]_vars

(***************************************************************************)
(* C28.  When an adapter call fails during add_long_term, search_long_term,*)
(* recall or promote_stm_to_ltm, the failure reaches the caller and the    *)
(* engine does not attempt the call again: the operation raises, the       *)
(* failed call is the last adapter call it made, and neither store has     *)
(* changed.                                                                *)
(***************************************************************************)
AdapterOp == last.op \in {"add_long_term", "search_long_term", "recall", "promote"}

\* the adapter call numbered fail_at was reached
FailedCall == AdapterOp /\ last.fail_at # 0 /\ Len(last.calls) >= last.fail_at

C28_FailureSurfaces ==
    /\ FailedCall =>
          /\ last.status = "raised"
          /\ Len(last.calls) = last.fail_at
          /\ ltm = last.pre_ltm /\ stm = last.pre_stm
    /\ (AdapterOp /\ last.status = "raised") => FailedCall

\* a promotion whose insert fails after its deduplication search succeeded
C28_Witness ==
    /\ last.op = "promote" /\ last.status = "raised"
    /\ last.calls = <<"search", "upsert">>

C30_NoLostWrite ==
    (last.op = "promote" /\ last.status = "ok") =>
        \A e \in Range(STM_get_all(last.pre_stm, last.session, now)) :
            \/ \E d \in Range(last.stm_data) : d.key = e.key /\ d.value = e.value
            \/ e \in Range(STM_get_all(stm, last.session, now))

(***************************************************************************)
(* C31.  With the in-memory backend, an entry written by set while the     *)
(* sweep (cleanup_expired) is running, and not expired, is not removed by  *)
(* the sweep: once the sweep has finished, get returns the value of every  *)
(* entry that was set, not cleared and has not expired.                    *)
(***************************************************************************)
C31_SweepKeepsLive ==
    (stm_backend = "memory" /\ worker.pc = "sleep") =>
        \A p \in LiveWritten(now) :
            STM_get(stm, p[1], p[2], now) = written[p].value

(***************************************************************************)
(* C32.  cleanup_expired changes no observable result: for every session   *)
(* and key, get and get_all return just after a sweep what they returned   *)
(* just before it; and the sweep removes from the store exactly the        *)
(* entries whose age is above the time to live and the sessions left with  *)
(* no entry.                                                               *)
(***************************************************************************)
\* the entries of a session's dict that are not older than the time to live
Unexpired(data, t) ==
    SelectSeq2(data, {e \in Range(data) : ~AgeExceedsTtl(e.timestamp, t)})

C32_SweepIsNeutral ==
    last.op = "cleanup_expired" =>
        /\ \A s \in {"s1", "s2"} :
              /\ STM_get_all(stm, s, now) = STM_get_all(last.pre_stm, s, now)
              /\ \A p \in StmSlots :
                    STM_get(stm, p[1], p[2], now) = STM_get(last.pre_stm, p[1], p[2], now)
        /\ DOMAIN stm = {s \in DOMAIN last.pre_stm :
                            Unexpired(last.pre_stm[s], now) # <<>>}
        /\ \A s \in DOMAIN stm : stm[s] = Unexpired(last.pre_stm[s], now)

\* a sweep has removed an expired entry from a session that keeps another
\* entry, and has removed a session whose entries had all expired
C32_Witness ==
    /\ last.op = "cleanup_expired"
    /\ \E s \in DOMAIN stm : Len(stm[s]) < Len(last.pre_stm[s])
    /\ DOMAIN stm # DOMAIN last.pre_stm

(***************************************************************************)
(* C33.  On the Redis backend sessions are isolated, also when a session   *)
(* id or a key has a colon in it: get_all(s1) contains no entry that was   *)
(* set under another session, and clear(s1) deletes no entry that was set  *)
(* under another session.  Every value of the runs is written under one    *)
(* session only, so a value tells the session it was set under.            *)
(***************************************************************************)
\* the values set under the session in the Redis runs
SetUnder(session_id) == {w[3] : w \in {x \in RedisWrites : x[1] = session_id}}

C33_RedisSessionsIsolated ==
    /\ (stm_backend = "redis" /\ last.op = "get_all_short_term") =>
          \A e \in last.map : e[2] \in SetUnder(last.session)
    /\ (stm_backend = "redis" /\ last.op = "clear_short_term") =>
          \A rk \in DOMAIN last.pre_stm \ DOMAIN stm :
              last.pre_stm[rk].entry.value \in SetUnder(last.session)

(***************************************************************************)
(* C34.  Turns added with add_conversation_turn are all kept: a turn added *)
(* to a session joins the session's turns and removes or replaces none of  *)
(* them; and get_conversation_context(session, last_n) returns the         *)
(* min(n, last_n) most recent of the session's n live turns, each once, in *)
(* ascending order of timestamp.                                           *)
(***************************************************************************)
\* the turn as get_conversation_context reports it
TurnAdded ==
    [timestamp |-> last.value.timestamp, user |-> last.value.user_message,
     assistant |-> last.value.assistant_message]

C34_TurnsKept ==
    /\ last.op = "add_conversation_turn" =>
          ConversationTurns(stm, last.session, now)
            = Append(ConversationTurns(last.pre_stm, last.session, now), TurnAdded)
    /\ last.op = "get_conversation_context" =>
          LET turns == ConversationTurns(stm, last.session, now)
              m == Min(Len(turns), last.top_k)
          IN  /\ last.result = SubSeq(turns, Len(turns) - m + 1, Len(turns))
              /\ \A i, j \in 1..Len(last.result) :
                    i < j => last.result[i].timestamp < last.result[j].timestamp

(***************************************************************************)
(* C35.  After a consolidation pass every two of the owner's scanned       *)
(* entries whose similarity is at least the threshold of the pass are in   *)
(* one group, in whatever order the scan visited the entries.              *)
(***************************************************************************)
\* the entries the pass scanned: the owner's entries at the start of the pass
Scanned ==
    search_long_term(last.pre_ltm, <<>>, last.user, GET_ALL_TOP_K, NoFilter,
                     SEARCH_LONG_TERM_MIN_SCORE)

C35_SimilarPairsGrouped ==
    (last.op = "consolidate" /\ last.status = "ok") =>
        \A a, b \in Range(Scanned) :
            (a.id # b.id /\ _calculate_similarity_at_least(a.text, b.text, last.threshold))
                => \E g \in 1..Len(last.groups) :
                       {a.id, b.id} \subseteq Range(last.groups[g])

(***************************************************************************)
(* C36.  Each consolidated entry stored by a pass is built from one group  *)
(* of the pass: consolidated_from lists the ids of the group, each once,   *)
(* anchor first and the others in scan order, consolidated_at is set, and  *)
(* the text is made of the group's texts in that order.  As stated: the    *)
(* text is the concatenation of the texts.  As the code has it: the texts  *)
(* are joined with " | " after the label "Consolidated memory: ".          *)
(***************************************************************************)
\* the entries the pass stored
StoredByPass ==
    {ltm[i] : i \in (Len(last.pre_ltm) + 1)..Len(ltm)}

\* the texts of the scanned entries with the given ids, in the order of the ids
GroupTexts(ids) ==
    List([k \in 1..Len(ids) |->
            (CHOOSE x \in Range(Scanned) : x.id = ids[k]).text])

\* the position of the entry in the scan
ScanIndex(id) == CHOOSE i \in 1..Len(Scanned) : Scanned[i].id = id

\* the entry names the group: its ids once each, in scan order, and a time tag
BuiltFromGroup(e, g) ==
    /\ e.metadata.consolidated_from = last.groups[g]
    /\ \A i, j \in 1..Len(last.groups[g]) :
          i < j => ScanIndex(last.groups[g][i]) < ScanIndex(last.groups[g][j])
    /\ e.metadata.consolidated_at # -1

ConsolidatedLabel ==
    <<"C","o","n","s","o","l","i","d","a","t","e","d"," ",
      "m","e","m","o","r","y",":"," ">>

C36_TextIsConcatenation ==
    (last.op = "consolidate" /\ last.status = "ok") =>
        \A e \in StoredByPass :
            \E g \in 1..Len(last.groups) :
                /\ BuiltFromGroup(e, g)
                /\ e.text = Join(<<>>, GroupTexts(last.groups[g]))

C36_BuiltFromGroup ==
    (last.op = "consolidate" /\ last.status = "ok") =>
        \A e \in StoredByPass :
            \E g \in 1..Len(last.groups) :
                /\ BuiltFromGroup(e, g)
                /\ e.text = ConsolidatedLabel
                              \o Join(<<" ", "|", " ">>, GroupTexts(last.groups[g]))

\* a pass has stored the entry of a group of three
C36_Witness ==
    /\ last.op = "consolidate" /\ last.status = "ok"
    /\ \E e \in StoredByPass : Len(e.metadata.consolidated_from) = 3

(***************************************************************************)
(* C37.  No entry enters the long-term store without the deduplication     *)
(* check: in every operation that stores entries (add_long_term,           *)
(* promotion, archive summary, consolidation, summarize_old_memories,      *)
(* import_json) each insert into the store comes right after the check's   *)
(* search, and the check, run on the store as it was just before the       *)
(* insert, finds no match for the entry.                                   *)
(***************************************************************************)
\* the positions in the store of the entries the last operation stored
StoredByLast == {i \in 1..Len(ltm) : ltm[i].id >= last.pre_next}

\* the store just before the entry at position i was inserted
StoreBefore(i) ==
    last.pre_ltm \o SelectSeq2(ltm, {ltm[j] : j \in {k \in StoredByLast : k < i}})

\* the check of add_entry for the entry at position i finds a match
CheckFindsMatch(i) ==
    IsDuplicate(Backend_search(StoreBefore(i), ltm[i].text, 3,
                               [user_id |-> ltm[i].user_id,
                                conversation_id |-> ltm[i].metadata.conversation_id],
                               MIN_SEARCH_SCORE),
                ltm[i].text)

InsertPaths ==
    {"add_long_term", "promote", "archive", "consolidate",
     "summarize_old_memories", "import_json"}

C37_CheckedBeforeInsert ==
    (last.op \in InsertPaths /\ last.status = "ok") =>
        /\ \A k \in 1..Len(last.calls) :
              last.calls[k] = "upsert" => (k > 1 /\ last.calls[k - 1] = "search")
        /\ \A i \in StoredByLast : ~CheckFindsMatch(i)

(***************************************************************************)
(* C38.  score_importance(text, context) is                                *)
(* min(1, 0.3*H + 0.15*M + L + C + R + Q): H and M the numbers of          *)
(* high-weight and medium-weight keywords that occur in the lower-cased    *)
(* text, each keyword once; L 0.1 exactly for a text above 200 characters, *)
(* never 0.2; C 0.1 exactly for conversation_length above 10; R 0.4        *)
(* exactly when user_explicitly_asked_to_remember is set; Q 0.1 exactly    *)
(* when the text has a "?" or starts with what, how, why, when or where.   *)
(* In hundredths.                                                          *)
(***************************************************************************)
\* how many of the keywords occur in the lower-cased text
KeywordsIn(keywords, text) ==
    Cardinality({kw \in Range(keywords) : Contains(Lower(text), kw)})

IsQuestion(text) ==
    \/ "?" \in Range(text)
    \/ \E w \in Range(question_words) : Prefix(Lower(text), Len(w)) = w

ScoreFormula(text, context) ==
    LET H == KeywordsIn(high_importance_keywords, text)
        M == KeywordsIn(medium_importance_keywords, text)
        L == IF Len(text) > 200 THEN 10 ELSE 0
        C == IF context.conversation_length > 10 THEN 10 ELSE 0
        R == IF context.user_explicitly_asked_to_remember THEN 40 ELSE 0
        Q == IF IsQuestion(text) THEN 10 ELSE 0
    IN  Min(100, 30 * H + 15 * M + L + C + R + Q)

C38_ScoreFormula ==
    \A a \in scored : a.value = ScoreFormula(a.text, a.context)

\* a text above 500 characters and a text whose sum is above the cap have been
\* scored
C38_Witness ==
    /\ \E a \in scored : Len(a.text) > 500 /\ a.value < 100
    /\ \E a \in scored : a.value = 100 /\ KeywordsIn(high_importance_keywords, a.text) = 4

(***************************************************************************)
(* C39.  The text stored by promote_stm_to_ltm is the newline-join of the  *)
(* session's live short-term entries, each as "key: value"; it is scored   *)
(* with conversation_length the number of those entries; that score is the *)
(* one compared with min_importance and the importance stored with the     *)
(* promoted entry.                                                         *)
(***************************************************************************)
\* the live entries as lines "key: value"
PromoteLines ==
    List([k \in 1..Len(PromoteLive) |->
            PromoteLive[k].key \o <<":", " ">> \o PromoteLive[k].value])

\* the score of the promoted text by the formula of C38
PromoteFormula ==
    ScoreFormula(Join(<<"\n">>, PromoteLines),
                 [conversation_length |-> Len(PromoteLive),
                  user_explicitly_asked_to_remember |-> FALSE])

C39_PromotedTextAndScore ==
    (last.op = "promote" /\ last.status = "ok") =>
        /\ last.id # 0 =>
              \E i \in 1..Len(ltm) :
                  /\ ltm[i].id = last.id
                  /\ ltm[i].text = Join(<<"\n">>, PromoteLines)
                  /\ ltm[i].metadata.importance = PromoteFormula
                  /\ PromoteFormula >= last.min_importance
        /\ (PromoteLive # <<>> /\ PromoteFormula >= last.min_importance
              /\ last.pre_ltm = <<>>) => last.id # 0

\* eleven live entries, one more than the conversation bonus needs, promoted with
\* a minimum that the text alone does not reach
C39_Witness ==
    /\ last.op = "promote" /\ last.id # 0
    /\ Len(PromoteLive) = 11
    /\ last.min_importance = 40

=============================================================================
